---- MODULE Spec2Model ----
(***************************************************************************)
(* Verification model of negentropic-core: the workspace slab allocator    *)
(* (src/core/integrators/workspace_slab.c, workspace.c), the canonical     *)
(* state snapshot (src/core/state.c), the sparse octree                    *)
(* (src/grid/sparse_octree.c) and the grid front end (src/grid/grid.c).    *)
(***************************************************************************)
EXTENDS Integers, Sequences, FiniteSets, TLC

VARIABLES
    \* ---- workspace_slab.c: static storage --------------------------------
    slab_initialized,   \* static bool slab_initialized
    lut_initialized,    \* static bool lut_initialized
    integrator_bitmap,  \* static atomic_uint integrator_bitmap
    clebsch_bitmap,     \* static atomic_uint clebsch_bitmap
    integrator_pool,    \* static IntegratorWorkspace integrator_pool[16]
    clebsch_pool,       \* static ClebschWorkspace clebsch_pool[8]
    \* ---- the threads calling the allocator -------------------------------
    spawned,            \* worker threads have been started by the main thread
    thr,                \* per thread: position in the call and its locals
    held,               \* per thread: workspace pointers it has been handed
    released,           \* per thread: pointers it has released and still keeps
    \* ---- state.c ----------------------------------------------------------
    sim,                \* per simulation: the SimulationInternal block
    hist,               \* per simulation: the dt of each step made (-1: a reset)
    hash_out,           \* per simulation: what state_hash returned for its
                        \* current state
    snapshot,           \* the caller's buffer written by state_to_binary
    error_flags,        \* per simulation: the NegErrorFlags record
    \* ---- sparse_octree.c, grid.c ------------------------------------------
    tree,               \* the Octree made by octree_create, with its root node
    grid,               \* the Grid made by grid_create_ex
    \* ---- lod_dispatch.c, integrators.c, clebsch_collective.c --------------
    cells,              \* the tile: GridCell cells[num_cells]
    tile_ws,            \* the tile's IntegratorWorkspace
    linked_clebsch,     \* which of the two external definitions of
                        \* clebsch_integrate_cell the build resolved
    g_clebsch_lut,      \* static ClebschLUT g_clebsch_lut
    heap_allocs,        \* calloc calls made since integrator_init returned
    calls,              \* per tile step made: the lod_gated_step_cell calls
                        \* of that step, in order
    \* ---- regeneration_cascade.c, barriers.h -------------------------------
    params,             \* the caller's RegenerationParams and the values in
                        \* the parameter file
    barrier,            \* the arguments handed to the barrier routines
    \* ---- rng.c -----------------------------------------------------------
    rng,                \* the caller's NegRNG and the draws made from it
    \* ---- hydrology_richards_lite.c ---------------------------------------
    g_lut_initialized,  \* int g_lut_initialized
    scratch,            \* the function-local static arrays of the solver
    hyd,                \* per caller: its cell array and its call of
                        \* richards_lite_step
    \* ---- the caller -------------------------------------------------------
    ret                 \* the last call that returns through here: its
                        \* function, arguments and return value

slabVars == <<slab_initialized, lut_initialized, integrator_bitmap,
              clebsch_bitmap, integrator_pool, clebsch_pool, spawned, thr, held,
              released>>
stateVars == <<sim, hist, hash_out, snapshot, error_flags>>
gridVars == <<tree, grid>>
dispatchVars == <<cells, tile_ws, linked_clebsch, g_clebsch_lut, heap_allocs, calls>>
numericVars == <<params, barrier>>
hydroVars == <<g_lut_initialized, scratch, hyd>>
solverVars == <<rng, hydroVars>>
kernelVars == <<dispatchVars, numericVars, solverVars>>
\* What the allocator's own steps leave alone.
otherVars == <<released, stateVars, gridVars, kernelVars, ret>>

vars == <<slab_initialized, lut_initialized, integrator_bitmap,
          clebsch_bitmap, integrator_pool, clebsch_pool, spawned, thr, held,
          released, sim, hist, hash_out, snapshot, error_flags, tree, grid,
          cells, tile_ws, linked_clebsch, g_clebsch_lut, heap_allocs, calls,
          params, barrier, rng, g_lut_initialized, scratch, hyd, ret>>

\* What the caller sees of a call: function, arguments, return value.
Returned(op, arg, value) == [op |-> op, arg |-> arg, value |-> value]

(***************************************************************************)
(* Slab configuration (workspace_slab.h)                                   *)
(***************************************************************************)
MAX_INTEGRATOR_WORKSPACES == 16
MAX_CLEBSCH_WORKSPACES == 8

\* Worker threads start once the main thread has left exactly this many
\* slots of each pool unclaimed.
InitFreeSlots == 1

Workers == {"w1", "w2"}
Claimants == Workers \cup {"main"}

\* max_dim arguments passed to integrator_workspace_create
MaxDimInputs == {0, 64}

(***************************************************************************)
(* Pointers.  A pointer names the array object it points into and the      *)
(* element index; "other" is an object that is neither pool.               *)
(***************************************************************************)
NULL == [base |-> "NULL", idx |-> 0]
IntegratorPtr(i) == [base |-> "integrator_pool", idx |-> i]
ClebschPtr(i) == [base |-> "clebsch_pool", idx |-> i]
OtherPtr(i) == [base |-> "other", idx |-> i]

\* Pointers that do not point to a slot of the integrator pool: null, the
\* one-past-the-end pointer, a workspace living elsewhere.
ForeignIntegratorPtrs ==
    {NULL, IntegratorPtr(MAX_INTEGRATOR_WORKSPACES), OtherPtr(0)}
ForeignClebschPtrs ==
    {NULL, ClebschPtr(MAX_CLEBSCH_WORKSPACES), OtherPtr(0)}

\* ws - pool (ptrdiff_t).  Within the array the difference is the element
\* index.  For a pointer into another object the subtraction has no defined
\* value; the object lies outside the array, so the quotient a build produces
\* is below 0 or at least the capacity.
PtrDiffIgnoringObject(ws, base, capacity) == {ws.idx}
PtrDiff(ws, base, capacity) ==
    IF ws.base = base THEN {ws.idx} ELSE {-1, capacity}

\* offset < 0 || offset >= MAX  (the "not from our pool" test)
OutOfPool(offset, capacity) == offset < 0 \/ offset >= capacity

(***************************************************************************)
(* Bitmaps (atomic_uint, one bit per workspace)                            *)
(***************************************************************************)
TestBit(b, i) == (b \div (2 ^ i)) % 2 = 1
SetBit(b, i) == IF TestBit(b, i) THEN b ELSE b + 2 ^ i
ClearBit(b, i) == IF TestBit(b, i) THEN b - 2 ^ i ELSE b
PopCount(b, capacity) == Cardinality({i \in 0 .. capacity - 1 : TestBit(b, i)})
FullMask(capacity) == 2 ^ capacity - 1

\* for (i = 0; i < MAX; i++) if ((bitmap & (1u << i)) == 0) { slot = i; break; }
FirstFreeSlotShortScan(b, capacity) ==
    LET free == {i \in 0 .. capacity - 2 : ~TestBit(b, i)}
    IN  IF free = {} THEN -1
        ELSE CHOOSE i \in free : \A j \in free : i <= j
FirstFreeSlot(b, capacity) ==
    LET free == {i \in 0 .. capacity - 1 : ~TestBit(b, i)}
    IN  IF free = {} THEN -1
        ELSE CHOOSE i \in free : \A j \in free : i <= j

\* atomic_compare_exchange_weak(&bitmap, &expected, desired): the exchange
\* happens only if the current value equals the expected one.
CasMatchesBlindStore(current, expected) == TRUE
CasMatchesNever(current, expected) == FALSE
CasMatches(current, expected) == current = expected

\* Where the retry loop resumes after a failed exchange: `while (true)` starts
\* over with a fresh atomic_load.
RetryLabel(loadLabel, casLabel) == loadLabel

(***************************************************************************)
(* Workspace contents                                                      *)
(***************************************************************************)
\* memset(ws, 0, sizeof(IntegratorWorkspace))
ZeroIntegratorWorkspace == [max_dim |-> 0]
\* memset(ws, 0, sizeof(ClebschWorkspace))
ZeroClebschWorkspace == [lut |-> "NULL"]
SharedLut == "shared_clebsch_lut"

\* A thread between calls; during a call: the statement it is at (pc) and the
\* call's parameters and locals.
IdleThread == [pc |-> "idle", bitmap |-> 0, slot |-> -1, ws |-> NULL,
               max_dim |-> 0]

Goto(t, label) == thr' = [thr EXCEPT ![t].pc = label]

(***************************************************************************)
(* Initial state: static storage before workspace_slab_init                *)
(***************************************************************************)
SlabInit ==
    /\ slab_initialized = FALSE
    /\ lut_initialized = FALSE
    /\ integrator_bitmap = 0
    /\ clebsch_bitmap = 0
    /\ integrator_pool = [i \in 0 .. MAX_INTEGRATOR_WORKSPACES - 1 |->
                             ZeroIntegratorWorkspace]
    /\ clebsch_pool = [i \in 0 .. MAX_CLEBSCH_WORKSPACES - 1 |->
                          ZeroClebschWorkspace]
    /\ spawned = FALSE
    /\ thr = [t \in Claimants |-> IdleThread]
    /\ held = [t \in Claimants |-> {}]
    /\ released = [t \in Claimants |-> {}]

(***************************************************************************)
(* Who may start a call.  The main thread initialises the slab and claims  *)
(* its own workspaces before it starts the workers (workspace_slab.h:63);  *)
(* it keeps them while the workers run.                                    *)
(***************************************************************************)
CanCall(t) ==
    /\ thr[t].pc = "idle"
    /\ IF t = "main" THEN ~spawned ELSE spawned

\* the call returns to its caller
Return(t) == thr' = [thr EXCEPT ![t] = IdleThread]

\* workspace_slab_init (workspace_slab.c:53-77), called through
\* integrator_init (workspace.c:114-123).  clebsch_lut_init allocates the
\* tables and may fail.
\* workspace_slab_init past its "already initialized" return
\* (workspace_slab.c:58-76)
SlabReset ==
    /\ integrator_pool' = [i \in DOMAIN integrator_pool |->
                              ZeroIntegratorWorkspace]
    /\ clebsch_pool' = [i \in DOMAIN clebsch_pool |->
                           ZeroClebschWorkspace]
    /\ integrator_bitmap' = 0
    /\ clebsch_bitmap' = 0
    /\ \E lut_ok \in BOOLEAN :
         IF lut_initialized \/ lut_ok
         THEN lut_initialized' = TRUE /\ slab_initialized' = TRUE
         ELSE UNCHANGED <<lut_initialized, slab_initialized>>
    /\ UNCHANGED <<spawned, thr, held>>

SlabInitUnguarded == SlabReset
SlabInitEffect == IF slab_initialized THEN UNCHANGED slabVars ELSE SlabReset

workspace_slab_init ==
    /\ thr["main"].pc = "idle"
    /\ SlabInitEffect
    /\ UNCHANGED otherVars

\* integrator_init (workspace.c:114-123) as a call the caller observes; the
\* arguments record whether the slab was initialized and whether any
\* workspace was held when the call was made.
integrator_init ==
    /\ thr["main"].pc = "idle"
    /\ SlabInitEffect
    /\ ret' = Returned("integrator_init",
                       <<slab_initialized,
                         integrator_bitmap # 0 \/ clebsch_bitmap # 0>>, 0)
    /\ UNCHANGED <<released, stateVars, gridVars, kernelVars>>

\* The main thread starts the workers.
SpawnWorkers ==
    /\ ~spawned
    /\ slab_initialized
    /\ thr["main"].pc = "idle"
    /\ MAX_INTEGRATOR_WORKSPACES
         - PopCount(integrator_bitmap, MAX_INTEGRATOR_WORKSPACES) = InitFreeSlots
    /\ MAX_CLEBSCH_WORKSPACES
         - PopCount(clebsch_bitmap, MAX_CLEBSCH_WORKSPACES) = InitFreeSlots
    /\ spawned' = TRUE
    /\ UNCHANGED <<slab_initialized, lut_initialized, integrator_bitmap,
                   clebsch_bitmap, integrator_pool, clebsch_pool, thr, held>>
    /\ UNCHANGED otherVars

(***************************************************************************)
(* integrator_workspace_create (workspace.c:18-40) and                     *)
(* workspace_slab_alloc_integrator (workspace_slab.c:121-155)              *)
(***************************************************************************)
\* Entry: the max_dim sanity check (return NULL at once), then the slab's
\* "not initialized" check.
integrator_workspace_create(t) ==
    /\ CanCall(t)
    /\ \E max_dim \in MaxDimInputs :
         IF max_dim = 0 \/ max_dim > 128
         THEN UNCHANGED thr
         ELSE thr' = [thr EXCEPT ![t] = [IdleThread EXCEPT
                        !.pc = IF slab_initialized THEN "ai_load" ELSE "ai_null",
                        !.max_dim = max_dim]]
    /\ UNCHANGED <<slab_initialized, lut_initialized, integrator_bitmap,
                   clebsch_bitmap, integrator_pool, clebsch_pool, spawned, held>>
    /\ UNCHANGED otherVars

\* bitmap = atomic_load(&integrator_bitmap); scan for the first zero bit
AllocIntegratorLoad(t) ==
    /\ thr[t].pc = "ai_load"
    /\ LET slot == FirstFreeSlot(integrator_bitmap, MAX_INTEGRATOR_WORKSPACES)
       IN  IF slot = -1
           THEN Goto(t, "ai_null")
           ELSE thr' = [thr EXCEPT ![t].pc = "ai_cas",
                                   ![t].bitmap = integrator_bitmap,
                                   ![t].slot = slot]
    /\ UNCHANGED <<slab_initialized, lut_initialized, integrator_bitmap,
                   clebsch_bitmap, integrator_pool, clebsch_pool, spawned, held>>
    /\ UNCHANGED otherVars

\* return NULL (not initialized, or pool exhausted)
AllocIntegratorNull(t) ==
    /\ thr[t].pc = "ai_null"
    /\ Return(t)
    /\ UNCHANGED <<slab_initialized, lut_initialized, integrator_bitmap,
                   clebsch_bitmap, integrator_pool, clebsch_pool, spawned, held>>
    /\ UNCHANGED otherVars

\* atomic_compare_exchange_weak succeeds: the bit is set
AllocIntegratorCas(t) ==
    /\ thr[t].pc = "ai_cas"
    /\ CasMatches(integrator_bitmap, thr[t].bitmap)
    /\ integrator_bitmap' = SetBit(thr[t].bitmap, thr[t].slot)
    /\ Goto(t, "ai_zero")
    /\ UNCHANGED <<slab_initialized, lut_initialized, clebsch_bitmap,
                   integrator_pool, clebsch_pool, spawned, held>>
    /\ UNCHANGED otherVars

\* the exchange fails (another thread changed the bitmap, or spuriously)
AllocIntegratorCasFail(t) ==
    /\ thr[t].pc = "ai_cas"
    /\ Goto(t, RetryLabel("ai_load", "ai_cas"))
    /\ UNCHANGED <<slab_initialized, lut_initialized, integrator_bitmap,
                   clebsch_bitmap, integrator_pool, clebsch_pool, spawned, held>>
    /\ UNCHANGED otherVars

\* ws = &integrator_pool[slot]; memset(ws, 0, ...); return ws
AllocIntegratorZero(t) ==
    /\ thr[t].pc = "ai_zero"
    /\ integrator_pool' = [integrator_pool EXCEPT ![thr[t].slot] =
                              ZeroIntegratorWorkspace]
    /\ Goto(t, "iw_init")
    /\ held' = [held EXCEPT ![t] = @ \cup {IntegratorPtr(thr[t].slot)}]
    /\ UNCHANGED <<slab_initialized, lut_initialized, integrator_bitmap,
                   clebsch_bitmap, clebsch_pool, spawned>>
    /\ UNCHANGED otherVars

workspace_slab_alloc_integrator(t) ==
    \/ AllocIntegratorLoad(t)
    \/ AllocIntegratorNull(t)
    \/ AllocIntegratorCas(t)
    \/ AllocIntegratorCasFail(t)
    \/ AllocIntegratorZero(t)

\* back in integrator_workspace_create: ws->max_dim = max_dim; ... return ws
integrator_workspace_create_init(t) ==
    /\ thr[t].pc = "iw_init"
    /\ integrator_pool' = [integrator_pool EXCEPT ![thr[t].slot] =
                              [max_dim |-> thr[t].max_dim]]
    /\ Return(t)
    /\ UNCHANGED <<slab_initialized, lut_initialized, integrator_bitmap,
                   clebsch_bitmap, clebsch_pool, spawned, held>>
    /\ UNCHANGED otherVars

(***************************************************************************)
(* workspace_slab_alloc_clebsch (workspace_slab.c:157-195)                 *)
(***************************************************************************)
AllocClebschCall(t) ==
    /\ CanCall(t)
    /\ thr' = [thr EXCEPT ![t] = [IdleThread EXCEPT
                 !.pc = IF ~slab_initialized \/ ~lut_initialized
                        THEN "ac_null" ELSE "ac_load"]]
    /\ UNCHANGED <<slab_initialized, lut_initialized, integrator_bitmap,
                   clebsch_bitmap, integrator_pool, clebsch_pool, spawned, held>>
    /\ UNCHANGED otherVars

AllocClebschLoad(t) ==
    /\ thr[t].pc = "ac_load"
    /\ LET slot == FirstFreeSlot(clebsch_bitmap, MAX_CLEBSCH_WORKSPACES)
       IN  IF slot = -1
           THEN Goto(t, "ac_null")
           ELSE thr' = [thr EXCEPT ![t].pc = "ac_cas",
                                   ![t].bitmap = clebsch_bitmap,
                                   ![t].slot = slot]
    /\ UNCHANGED <<slab_initialized, lut_initialized, integrator_bitmap,
                   clebsch_bitmap, integrator_pool, clebsch_pool, spawned, held>>
    /\ UNCHANGED otherVars

AllocClebschNull(t) ==
    /\ thr[t].pc = "ac_null"
    /\ Return(t)
    /\ UNCHANGED <<slab_initialized, lut_initialized, integrator_bitmap,
                   clebsch_bitmap, integrator_pool, clebsch_pool, spawned, held>>
    /\ UNCHANGED otherVars

AllocClebschCas(t) ==
    /\ thr[t].pc = "ac_cas"
    /\ CasMatches(clebsch_bitmap, thr[t].bitmap)
    /\ clebsch_bitmap' = SetBit(thr[t].bitmap, thr[t].slot)
    /\ Goto(t, "ac_zero")
    /\ UNCHANGED <<slab_initialized, lut_initialized, integrator_bitmap,
                   integrator_pool, clebsch_pool, spawned, held>>
    /\ UNCHANGED otherVars

AllocClebschCasFail(t) ==
    /\ thr[t].pc = "ac_cas"
    /\ Goto(t, RetryLabel("ac_load", "ac_cas"))
    /\ UNCHANGED <<slab_initialized, lut_initialized, integrator_bitmap,
                   clebsch_bitmap, integrator_pool, clebsch_pool, spawned, held>>
    /\ UNCHANGED otherVars

\* ws = &clebsch_pool[slot]; memset(ws, 0, sizeof(ClebschWorkspace))
AllocClebschZero(t) ==
    /\ thr[t].pc = "ac_zero"
    /\ clebsch_pool' = [clebsch_pool EXCEPT ![thr[t].slot] = ZeroClebschWorkspace]
    /\ Goto(t, "ac_attach")
    /\ UNCHANGED <<slab_initialized, lut_initialized, integrator_bitmap,
                   clebsch_bitmap, integrator_pool, spawned, held>>
    /\ UNCHANGED otherVars

\* ws->lut = &shared_clebsch_lut; return ws
AllocClebschAttach(t) ==
    /\ thr[t].pc = "ac_attach"
    /\ clebsch_pool' = [clebsch_pool EXCEPT ![thr[t].slot].lut = SharedLut]
    /\ Return(t)
    /\ held' = [held EXCEPT ![t] = @ \cup {ClebschPtr(thr[t].slot)}]
    /\ UNCHANGED <<slab_initialized, lut_initialized, integrator_bitmap,
                   clebsch_bitmap, integrator_pool, spawned>>
    /\ UNCHANGED otherVars

workspace_slab_alloc_clebsch(t) ==
    \/ AllocClebschCall(t)
    \/ AllocClebschLoad(t)
    \/ AllocClebschNull(t)
    \/ AllocClebschCas(t)
    \/ AllocClebschCasFail(t)
    \/ AllocClebschZero(t)
    \/ AllocClebschAttach(t)

(***************************************************************************)
(* workspace_slab_validate_integrator (workspace_slab.c:261-268)           *)
(***************************************************************************)
workspace_slab_validate_integrator(ws, offset) ==
    IF ws = NULL \/ ~slab_initialized
    THEN FALSE
    ELSE offset >= 0 /\ offset < MAX_INTEGRATOR_WORKSPACES

(***************************************************************************)
(* workspace_slab_free_integrator (workspace_slab.c:201-226), called       *)
(* directly or through integrator_workspace_destroy (workspace.c:42-52)    *)
(***************************************************************************)
\* The pointers a thread passes to the integrator release functions: a
\* workspace it holds, or a foreign pointer.
IntegratorFreeArgs(t) ==
    {p \in held[t] : p.base = "integrator_pool"} \cup ForeignIntegratorPtrs

\* Entry of workspace_slab_free_integrator: the null / not-initialized check
\* and the pool range check.  A held workspace stops being held when its
\* holder calls free on it.
FreeIntegratorEntry(t, ws, offset) ==
    /\ held' = [held EXCEPT ![t] = @ \ {ws}]
    /\ thr' = [thr EXCEPT ![t] = [IdleThread EXCEPT
                 !.pc = IF ws = NULL \/ ~slab_initialized
                           \/ OutOfPool(offset, MAX_INTEGRATOR_WORKSPACES)
                        THEN "fi_ignore" ELSE "fi_load",
                 !.ws = ws, !.slot = offset]]
    /\ UNCHANGED <<slab_initialized, lut_initialized, integrator_bitmap,
                   clebsch_bitmap, integrator_pool, clebsch_pool, spawned>>
    /\ UNCHANGED otherVars

FreeIntegratorCall(t) ==
    /\ CanCall(t) /\ t \in Workers
    /\ \E ws \in IntegratorFreeArgs(t) :
         \E offset \in PtrDiff(ws, "integrator_pool", MAX_INTEGRATOR_WORKSPACES) :
            FreeIntegratorEntry(t, ws, offset)

integrator_workspace_destroy(t) ==
    /\ CanCall(t) /\ t \in Workers
    /\ \E ws \in IntegratorFreeArgs(t) :
         \E offset \in PtrDiff(ws, "integrator_pool", MAX_INTEGRATOR_WORKSPACES) :
            IF ws = NULL \/ ~workspace_slab_validate_integrator(ws, offset)
            THEN /\ thr' = [thr EXCEPT ![t] = [IdleThread EXCEPT
                              !.pc = "fi_ignore", !.ws = ws, !.slot = offset]]
                 /\ held' = [held EXCEPT ![t] = @ \ {ws}]
                 /\ UNCHANGED <<slab_initialized, lut_initialized,
                                integrator_bitmap, clebsch_bitmap,
                                integrator_pool, clebsch_pool, spawned>>
                 /\ UNCHANGED otherVars
            ELSE FreeIntegratorEntry(t, ws, offset)

\* return without touching the pool ("Invalid input" / "Not from our pool")
FreeIntegratorIgnore(t) ==
    /\ thr[t].pc = "fi_ignore"
    /\ Return(t)
    /\ UNCHANGED <<slab_initialized, lut_initialized, integrator_bitmap,
                   clebsch_bitmap, integrator_pool, clebsch_pool, spawned, held>>
    /\ UNCHANGED otherVars

\* bitmap = atomic_load(&integrator_bitmap); new_bitmap = bitmap & ~(1u << slot)
FreeIntegratorLoad(t) ==
    /\ thr[t].pc = "fi_load"
    /\ thr' = [thr EXCEPT ![t].pc = "fi_cas", ![t].bitmap = integrator_bitmap]
    /\ UNCHANGED <<slab_initialized, lut_initialized, integrator_bitmap,
                   clebsch_bitmap, integrator_pool, clebsch_pool, spawned, held>>
    /\ UNCHANGED otherVars

FreeIntegratorCas(t) ==
    /\ thr[t].pc = "fi_cas"
    /\ CasMatches(integrator_bitmap, thr[t].bitmap)
    /\ integrator_bitmap' = ClearBit(thr[t].bitmap, thr[t].slot)
    /\ Goto(t, "fi_zero")
    /\ UNCHANGED <<slab_initialized, lut_initialized, clebsch_bitmap,
                   integrator_pool, clebsch_pool, spawned, held>>
    /\ UNCHANGED otherVars

FreeIntegratorCasFail(t) ==
    /\ thr[t].pc = "fi_cas"
    /\ Goto(t, RetryLabel("fi_load", "fi_cas"))
    /\ UNCHANGED <<slab_initialized, lut_initialized, integrator_bitmap,
                   clebsch_bitmap, integrator_pool, clebsch_pool, spawned, held>>
    /\ UNCHANGED otherVars

\* memset(ws, 0, sizeof(IntegratorWorkspace)), after the bit was cleared
FreeIntegratorZero(t) ==
    /\ thr[t].pc = "fi_zero"
    /\ integrator_pool' = [integrator_pool EXCEPT ![thr[t].slot] =
                              ZeroIntegratorWorkspace]
    /\ Return(t)
    /\ UNCHANGED <<slab_initialized, lut_initialized, integrator_bitmap,
                   clebsch_bitmap, clebsch_pool, spawned, held>>
    /\ UNCHANGED otherVars

workspace_slab_free_integrator(t) ==
    \/ FreeIntegratorCall(t)
    \/ FreeIntegratorIgnore(t)
    \/ FreeIntegratorLoad(t)
    \/ FreeIntegratorCas(t)
    \/ FreeIntegratorCasFail(t)
    \/ FreeIntegratorZero(t)

(***************************************************************************)
(* A workspace pointer released and then released again by the same thread *)
(* (workspace_slab.c:201-226, workspace.c:42-52)                           *)
(***************************************************************************)
\* Where the release goes after the null / not-initialized check and the
\* pool range check.
FreeIntegratorTarget(ws, offset) ==
    IF ws = NULL \/ ~slab_initialized
       \/ OutOfPool(offset, MAX_INTEGRATOR_WORKSPACES)
    THEN "fi_ignore" ELSE "fi_load"

\* t releases a workspace it holds and keeps the pointer.
FreeIntegratorKeeping(t) ==
    /\ CanCall(t) /\ t \in Workers
    /\ \E ws \in {p \in held[t] : p.base = "integrator_pool"} :
         /\ held' = [held EXCEPT ![t] = @ \ {ws}]
         /\ released' = [released EXCEPT ![t] = @ \cup {ws}]
         /\ thr' = [thr EXCEPT ![t] = [IdleThread EXCEPT
                      !.pc = FreeIntegratorTarget(ws, ws.idx),
                      !.ws = ws, !.slot = ws.idx]]
    /\ UNCHANGED <<slab_initialized, lut_initialized, integrator_bitmap,
                   clebsch_bitmap, integrator_pool, clebsch_pool, spawned>>
    /\ UNCHANGED <<stateVars, gridVars, kernelVars, ret>>

\* t releases a kept pointer a second time, through
\* workspace_slab_free_integrator or through integrator_workspace_destroy
\* and its workspace_slab_validate_integrator test.
FreeIntegratorAgain(t, through_destroy) ==
    /\ CanCall(t) /\ t \in Workers
    /\ \E ws \in released[t] \ held[t] :
         thr' = [thr EXCEPT ![t] = [IdleThread EXCEPT
                   !.pc = IF through_destroy
                             /\ ~workspace_slab_validate_integrator(ws, ws.idx)
                          THEN "fi_ignore"
                          ELSE FreeIntegratorTarget(ws, ws.idx),
                   !.ws = ws, !.slot = ws.idx]]
    /\ UNCHANGED <<slab_initialized, lut_initialized, integrator_bitmap,
                   clebsch_bitmap, integrator_pool, clebsch_pool, spawned, held>>
    /\ UNCHANGED otherVars

(***************************************************************************)
(* workspace_slab_free_clebsch (workspace_slab.c:228-255)                  *)
(***************************************************************************)
ClebschFreeArgs(t) ==
    {p \in held[t] : p.base = "clebsch_pool"} \cup ForeignClebschPtrs

FreeClebschCall(t) ==
    /\ CanCall(t) /\ t \in Workers
    /\ \E ws \in ClebschFreeArgs(t) :
         \E offset \in PtrDiff(ws, "clebsch_pool", MAX_CLEBSCH_WORKSPACES) :
            /\ held' = [held EXCEPT ![t] = @ \ {ws}]
            /\ thr' = [thr EXCEPT ![t] = [IdleThread EXCEPT
                         !.pc = IF ws = NULL \/ ~slab_initialized
                                   \/ OutOfPool(offset, MAX_CLEBSCH_WORKSPACES)
                                THEN "fc_ignore" ELSE "fc_load",
                         !.ws = ws, !.slot = offset]]
    /\ UNCHANGED <<slab_initialized, lut_initialized, integrator_bitmap,
                   clebsch_bitmap, integrator_pool, clebsch_pool, spawned>>
    /\ UNCHANGED otherVars

FreeClebschIgnore(t) ==
    /\ thr[t].pc = "fc_ignore"
    /\ Return(t)
    /\ UNCHANGED <<slab_initialized, lut_initialized, integrator_bitmap,
                   clebsch_bitmap, integrator_pool, clebsch_pool, spawned, held>>
    /\ UNCHANGED otherVars

FreeClebschLoad(t) ==
    /\ thr[t].pc = "fc_load"
    /\ thr' = [thr EXCEPT ![t].pc = "fc_cas", ![t].bitmap = clebsch_bitmap]
    /\ UNCHANGED <<slab_initialized, lut_initialized, integrator_bitmap,
                   clebsch_bitmap, integrator_pool, clebsch_pool, spawned, held>>
    /\ UNCHANGED otherVars

FreeClebschCas(t) ==
    /\ thr[t].pc = "fc_cas"
    /\ CasMatches(clebsch_bitmap, thr[t].bitmap)
    /\ clebsch_bitmap' = ClearBit(thr[t].bitmap, thr[t].slot)
    /\ Goto(t, "fc_detach")
    /\ UNCHANGED <<slab_initialized, lut_initialized, integrator_bitmap,
                   integrator_pool, clebsch_pool, spawned, held>>
    /\ UNCHANGED otherVars

FreeClebschCasFail(t) ==
    /\ thr[t].pc = "fc_cas"
    /\ Goto(t, RetryLabel("fc_load", "fc_cas"))
    /\ UNCHANGED <<slab_initialized, lut_initialized, integrator_bitmap,
                   clebsch_bitmap, integrator_pool, clebsch_pool, spawned, held>>
    /\ UNCHANGED otherVars

\* ws->lut = NULL, after the bit was cleared
FreeClebschDetach(t) ==
    /\ thr[t].pc = "fc_detach"
    /\ clebsch_pool' = [clebsch_pool EXCEPT ![thr[t].slot].lut = "NULL"]
    /\ Goto(t, "fc_zero")
    /\ UNCHANGED <<slab_initialized, lut_initialized, integrator_bitmap,
                   clebsch_bitmap, integrator_pool, spawned, held>>
    /\ UNCHANGED otherVars

\* memset(ws, 0, sizeof(ClebschWorkspace))
FreeClebschZero(t) ==
    /\ thr[t].pc = "fc_zero"
    /\ clebsch_pool' = [clebsch_pool EXCEPT ![thr[t].slot] = ZeroClebschWorkspace]
    /\ Return(t)
    /\ UNCHANGED <<slab_initialized, lut_initialized, integrator_bitmap,
                   clebsch_bitmap, integrator_pool, spawned, held>>
    /\ UNCHANGED otherVars

workspace_slab_free_clebsch(t) ==
    \/ FreeClebschCall(t)
    \/ FreeClebschIgnore(t)
    \/ FreeClebschLoad(t)
    \/ FreeClebschCas(t)
    \/ FreeClebschCasFail(t)
    \/ FreeClebschDetach(t)
    \/ FreeClebschZero(t)

(***************************************************************************)
(* workspace_slab_is_exhausted (workspace_slab.c:279-292)                  *)
(***************************************************************************)
\* Entry: "not initialized" returns true at once; otherwise
\* ibits = atomic_load(&integrator_bitmap)
IsExhaustedCall(t) ==
    /\ CanCall(t)
    /\ IF ~slab_initialized
       THEN /\ ret' = Returned("workspace_slab_is_exhausted", <<t>>, TRUE)
            /\ UNCHANGED thr
       ELSE /\ thr' = [thr EXCEPT ![t].pc = "ex_cbits",
                                  ![t].bitmap = integrator_bitmap]
            /\ UNCHANGED ret
    /\ UNCHANGED <<slab_initialized, lut_initialized, integrator_bitmap,
                   clebsch_bitmap, integrator_pool, clebsch_pool, spawned, held>>
    /\ UNCHANGED <<released, stateVars, gridVars, kernelVars>>

\* cbits = atomic_load(&clebsch_bitmap); return integrator_full || clebsch_full
IsExhaustedReturn(t) ==
    /\ thr[t].pc = "ex_cbits"
    /\ LET ibits == thr[t].bitmap
           cbits == clebsch_bitmap
           integrator_full == ibits = FullMask(MAX_INTEGRATOR_WORKSPACES)
           clebsch_full == cbits = FullMask(MAX_CLEBSCH_WORKSPACES)
       IN  ret' = Returned("workspace_slab_is_exhausted", <<t>>,
                           integrator_full \/ clebsch_full)
    /\ Return(t)
    /\ UNCHANGED <<slab_initialized, lut_initialized, integrator_bitmap,
                   clebsch_bitmap, integrator_pool, clebsch_pool, spawned, held>>
    /\ UNCHANGED <<released, stateVars, gridVars, kernelVars>>

workspace_slab_is_exhausted(t) ==
    \/ IsExhaustedCall(t)
    \/ IsExhaustedReturn(t)

(***************************************************************************)
(* Canonical simulation state and its binary snapshot (src/core/state.c)   *)
(***************************************************************************)
SimIds == {"simA", "simB"}

\* Number of state-changing calls (state_step, state_reset_from_binary) made
\* on the simulations in one behaviour.
MaxCalls == 2

\* A float dt is given in units of 1/1024 s, which a float holds exactly.
DtUnitsPerSecond == 1024

\* The SimulationConfig both simulations are created from.
Config == [num_entities |-> 1, num_scalar_fields |-> 1, dt |-> 512]

\* dt arguments of state_step; 0 selects config.dt
DtInputs == {0, 1}

SizeofPose == 192
SizeofFloat == 4
SizeofU32 == 4
SizeofU64 == 8
NEG_STATE_MAGIC == <<78, 69, 71, 83, 84, 65, 84, 69>>
NEG_STATE_MAGIC_LEN == 8
NEG_STATE_VERSION == 1

\* Byte values found in memory that was never written (malloc, caller buffer)
GarbageBytes == {0, 165}

Fill(b, n) == [i \in 1 .. n |-> b]
Slice(bytes, offset, n) == SubSeq(bytes, offset + 1, offset + n)

\* memcpy of an unsigned integer of w bytes on a little-endian host
RECURSIVE ToLE(_, _)
ToLE(n, w) == IF w = 0 THEN <<>> ELSE <<n % 256>> \o ToLE(n \div 256, w - 1)

RECURSIVE FromLE(_)
FromLE(bytes) ==
    IF bytes = <<>> THEN 0 ELSE Head(bytes) + 256 * FromLE(Tail(bytes))

\* ---- xxh3_hash: the FNV-1a placeholder, on 64 bits ----------------------
\* A uint64_t is kept as four 16-bit limbs, least significant first.
LimbBase == 65536
FNV_OFFSET_BASIS == <<8997, 33826, 40164, 52210>>   \* 0xcbf29ce484222325
FNV_PRIME_LOW == 435     \* 0x100000001b3 = 2^40 + 0x1b3

RECURSIVE Xor(_, _)
Xor(a, b) ==
    IF a = 0 THEN b
    ELSE IF b = 0 THEN a
    ELSE ((a + b) % 2) + 2 * Xor(a \div 2, b \div 2)

\* hash ^= bytes[i]
FnvXorByte(h, byte) ==
    [h EXCEPT ![1] = (h[1] \div 256) * 256 + Xor(h[1] % 256, byte)]

\* hash *= 0x100000001b3, modulo 2^64: h * 0x1b3 + (h << 40)
FnvMulPrime(h) ==
    LET a1 == h[1] * FNV_PRIME_LOW
        a2 == h[2] * FNV_PRIME_LOW + (a1 \div LimbBase)
        a3 == h[3] * FNV_PRIME_LOW + (a2 \div LimbBase)
        a4 == h[4] * FNV_PRIME_LOW + (a3 \div LimbBase)
        \* h << 40: bits 0..7 of h land in bits 8..15 of limb 3,
        \* bits 8..23 of h fill limb 4
        s3 == (h[1] % 256) * 256
        s4 == (h[1] \div 256) + (h[2] % 256) * 256
        b3 == (a3 % LimbBase) + s3
        b4 == (a4 % LimbBase) + s4 + (b3 \div LimbBase)
    IN  <<a1 % LimbBase, a2 % LimbBase, b3 % LimbBase, b4 % LimbBase>>

\* The loop over bytes[lo..hi], split in halves; the hash of the first half
\* is computed (the test on it) before the second half is entered, which keeps
\* the evaluation shallow.
RECURSIVE FnvFold(_, _, _, _)
FnvFold(h, bytes, lo, hi) ==
    IF lo > hi THEN h
    ELSE IF lo = hi THEN FnvMulPrime(FnvXorByte(h, bytes[lo]))
    ELSE LET mid == (lo + hi) \div 2
             left == FnvFold(h, bytes, lo, mid)
         IN  IF Len(left) = 4 THEN FnvFold(left, bytes, mid + 1, hi) ELSE left

xxh3_hash(bytes) == FnvFold(FNV_OFFSET_BASIS, bytes, 1, Len(bytes))

\* memcpy of a uint64_t hash into the buffer
HashBytes(h) ==
    <<h[1] % 256, h[1] \div 256, h[2] % 256, h[2] \div 256,
      h[3] % 256, h[3] \div 256, h[4] % 256, h[4] \div 256>>

\* ---- state_create --------------------------------------------------------
\* se3_pose_identity: the identity pose as it lies in memory
IdentityPose == [i \in 1 .. SizeofPose |-> IF i = 1 THEN 1 ELSE 0]

RECURSIVE Repeat(_, _)
Repeat(bytes, n) == IF n = 0 THEN <<>> ELSE bytes \o Repeat(bytes, n - 1)

state_create(cfg) ==
    [timestamp |-> 0,
     step_count |-> 0,
     poses |-> Repeat(IdentityPose, cfg.num_entities),
     scalar_fields |-> Fill(0, cfg.num_scalar_fields * SizeofFloat)]

NoHash == <<>>
NoReturn == [op |-> "none", arg |-> <<>>, value |-> 0]

\* neg_error_init: memset(flags, 0, sizeof(NegErrorFlags))
neg_error_init ==
    [overflow |-> 0, underflow |-> 0, nan_detected |-> 0, inf_detected |-> 0,
     so3_drift |-> 0, energy_drift |-> 0, step_failed |-> 0,
     mass_violation |-> 0, convergence_failed |-> 0,
     memory_error |-> 0, invalid_state |-> 0,
     total_errors |-> 0, last_error_step |-> 0]

StateInit ==
    /\ sim = [s \in SimIds |-> state_create(Config)]
    /\ hist = [s \in SimIds |-> <<>>]
    /\ hash_out = [s \in SimIds |-> NoHash]
    /\ snapshot = <<>>
    /\ error_flags = [s \in SimIds |-> neg_error_init]
    /\ ret = NoReturn

\* calls made so far that change a simulation
CallsMade == Len(hist["simA"]) + Len(hist["simB"])

\* ---- state_step ----------------------------------------------------------
\* (uint64_t)(dt * 1e6): the conversion truncates
DtToMicros(dt) == (dt * 1000000) \div DtUnitsPerSecond

state_step(s, dt) ==
    /\ CallsMade < MaxCalls
    /\ LET used == IF dt = 0 THEN Config.dt ELSE dt
       IN  sim' = [sim EXCEPT ![s].timestamp = @ + DtToMicros(used),
                              ![s].step_count = @ + 1]
    /\ hist' = [hist EXCEPT ![s] = Append(@, dt)]
    /\ hash_out' = [hash_out EXCEPT ![s] = NoHash]
    /\ ret' = [op |-> "state_step", arg |-> s, value |-> TRUE]
    /\ UNCHANGED <<snapshot, error_flags, slabVars, gridVars, kernelVars>>

\* ---- state_get_binary_size / state_to_binary ----------------------------
HeaderSize ==
    NEG_STATE_MAGIC_LEN + SizeofU32 + SizeofU64 + SizeofU64 + SizeofU32
HashOffset == NEG_STATE_MAGIC_LEN + SizeofU32 + SizeofU64

state_get_binary_size ==
    HeaderSize + SizeofU32 + Config.num_entities * SizeofPose
               + SizeofU32 + Config.num_scalar_fields * SizeofFloat

\* The buffer after state_to_binary, given what the buffer held before.
\* The hash field is reserved, not written, before the hash is computed.
SerializedBytes(S, prior) ==
    LET data == ToLE(Config.num_entities, SizeofU32) \o S.poses
                \o ToLE(Config.num_scalar_fields, SizeofU32) \o S.scalar_fields
        head == NEG_STATE_MAGIC \o ToLE(NEG_STATE_VERSION, SizeofU32)
                \o ToLE(S.timestamp \div 1000, SizeofU64)
        tail == ToLE(Len(data), SizeofU32) \o data
        hash == xxh3_hash(head \o Slice(prior, HashOffset, SizeofU64) \o tail)
    IN  head \o HashBytes(hash) \o tail

MaxLenInputs == {state_get_binary_size - 1, state_get_binary_size}

\* the caller's buffer receives one snapshot per behaviour
state_to_binary(s, max_len, fill) ==
    /\ snapshot = <<>>
    /\ IF max_len < state_get_binary_size
       THEN /\ ret' = [op |-> "state_to_binary", arg |-> s, value |-> 0]
            /\ UNCHANGED snapshot
       ELSE /\ snapshot' = SerializedBytes(sim[s], Fill(fill, max_len))
            /\ ret' = [op |-> "state_to_binary", arg |-> s,
                       value |-> state_get_binary_size]
    /\ UNCHANGED <<sim, hist, hash_out, error_flags, slabVars, gridVars, kernelVars>>

\* ---- state_reset_from_binary --------------------------------------------
ResetOutcome(S, buffer) ==
    LET len == Len(buffer)
        Fail(S1) == [ok |-> FALSE, sim |-> S1]
        versionAt == NEG_STATE_MAGIC_LEN
        timestampAt == versionAt + SizeofU32
        hashAt == timestampAt + SizeofU64
        dataSizeAt == hashAt + SizeofU64
        dataAt == dataSizeAt + SizeofU32
        posesAt == dataAt + SizeofU32
    IN  IF len = 0 THEN Fail(S)
        ELSE IF NEG_STATE_MAGIC_LEN > len THEN Fail(S)
        ELSE IF Slice(buffer, 0, NEG_STATE_MAGIC_LEN) # NEG_STATE_MAGIC
        THEN Fail(S)
        ELSE IF versionAt + SizeofU32 > len THEN Fail(S)
        ELSE IF FromLE(Slice(buffer, versionAt, SizeofU32)) # NEG_STATE_VERSION
        THEN Fail(S)
        ELSE IF timestampAt + SizeofU64 > len THEN Fail(S)
        ELSE
        LET timestamp_ms == FromLE(Slice(buffer, timestampAt, SizeofU64))
            S1 == [S EXCEPT !.timestamp = timestamp_ms * 1000]
        IN  IF hashAt + SizeofU64 > len THEN Fail(S1)
            ELSE IF dataSizeAt + SizeofU32 > len THEN Fail(S1)
            ELSE IF dataAt + FromLE(Slice(buffer, dataSizeAt, SizeofU32)) > len
            THEN Fail(S1)
            ELSE IF dataAt + SizeofU32 > len THEN Fail(S1)
            ELSE IF FromLE(Slice(buffer, dataAt, SizeofU32))
                      # Config.num_entities
            THEN Fail(S1)
            ELSE
            LET poses_size == Config.num_entities * SizeofPose
                scalarsAt == posesAt + poses_size
                S2 == [S1 EXCEPT !.poses = Slice(buffer, posesAt, poses_size)]
                scalar_fields_size == Config.num_scalar_fields * SizeofFloat
            IN  IF posesAt + poses_size > len THEN Fail(S1)
                ELSE IF scalarsAt + SizeofU32 > len THEN Fail(S2)
                ELSE IF FromLE(Slice(buffer, scalarsAt, SizeofU32))
                          # Config.num_scalar_fields
                THEN Fail(S2)
                ELSE IF scalarsAt + SizeofU32 + scalar_fields_size > len
                THEN Fail(S2)
                ELSE [ok |-> TRUE,
                      sim |-> [S2 EXCEPT !.scalar_fields =
                                 Slice(buffer, scalarsAt + SizeofU32,
                                       scalar_fields_size)]]

\* A snapshot written by an earlier session of the same configuration: other
\* time, other poses, other scalar values.
ForeignSnapshot ==
    SerializedBytes([timestamp |-> 7000, step_count |-> 0,
                     poses |-> Fill(9, Config.num_entities * SizeofPose),
                     scalar_fields |->
                         Fill(3, Config.num_scalar_fields * SizeofFloat)],
                    Fill(0, state_get_binary_size))

Truncate(bytes, len) == SubSeq(bytes, 1, len)
Poke(bytes, offset, new) ==
    [i \in 1 .. Len(bytes) |->
        IF i > offset /\ i <= offset + Len(new) THEN new[i - offset]
        ELSE bytes[i]]

\* The buffers a caller hands to state_reset_from_binary: a snapshot as
\* written, and damaged copies of it.
Damaged(b) ==
    LET scalarsAt == HeaderSize + SizeofU32 + Config.num_entities * SizeofPose
    IN  { Truncate(b, 0),
          Truncate(b, HashOffset),
          Truncate(b, Len(b) - 1),
          Poke(b, 0, <<0>>),
          Poke(b, NEG_STATE_MAGIC_LEN, ToLE(NEG_STATE_VERSION + 1, SizeofU32)),
          Poke(b, HeaderSize - SizeofU32, ToLE(Len(b), SizeofU32)),
          Poke(b, HeaderSize, ToLE(Config.num_entities + 1, SizeofU32)),
          Poke(b, scalarsAt, ToLE(Config.num_scalar_fields + 1, SizeofU32)) }

ForeignBuffers == {ForeignSnapshot} \cup Damaged(ForeignSnapshot)

ResetBuffers ==
    ForeignBuffers \cup (IF snapshot = <<>> THEN {} ELSE {snapshot})

state_reset_from_binary(s, buffer) ==
    /\ CallsMade < MaxCalls
    /\ LET out == ResetOutcome(sim[s], buffer)
       IN  /\ sim' = [sim EXCEPT ![s] = out.sim]
           /\ ret' = [op |-> "state_reset_from_binary", arg |-> s,
                      value |-> out.ok]
    /\ hist' = [hist EXCEPT ![s] = Append(@, -1)]
    /\ hash_out' = [hash_out EXCEPT ![s] = NoHash]
    /\ UNCHANGED <<snapshot, error_flags, slabVars, gridVars, kernelVars>>

\* ---- state_hash ----------------------------------------------------------
\* malloc returns memory whose bytes are indeterminate
state_hash(s, fill) ==
    /\ LET buffer == SerializedBytes(sim[s], Fill(fill, state_get_binary_size))
       IN  hash_out' = [hash_out EXCEPT ![s] = xxh3_hash(buffer)]
    /\ UNCHANGED <<sim, hist, snapshot, error_flags, ret, slabVars, gridVars, kernelVars>>

(***************************************************************************)
(* Sparse octree (src/grid/sparse_octree.c)                                *)
(***************************************************************************)
\* The tree covers GridSide x GridSide cells and its byte budget leaves room
\* for BudgetCells active cells.
GridSide == 2
BudgetCells == 2

SizeofOctree == 48
SizeofOctreeNode == 104
MinActiveCapacity == 16

CoordInputs == -1 .. GridSide


octree_linear_index(nx, i, j) == j * nx + i

octree_create(nx, ny, budget_bytes) ==
    [nx |-> nx, ny |-> ny,
     memory_budget |-> budget_bytes,
     memory_used |-> SizeofOctree + SizeofOctreeNode,
     total_nodes |-> 1, leaf_nodes |-> 1, total_active |-> 0,
     \* root node: the first active_count entries of active_indices
     active_count |-> 0, active_indices |-> <<>>, active_capacity |-> 0]

TreeBudget == SizeofOctree + SizeofOctreeNode + BudgetCells * SizeofU32

InBounds(t, i, j) == ~(i < 0 \/ i >= t.nx \/ j < 0 \/ j >= t.ny)

\* the linear search of the active list
ActiveNowhere(t, idx) == {}
ActiveAt(t, idx) ==
    {k \in 1 .. t.active_count : t.active_indices[k] = idx}

\* new capacity, or -1 when realloc fails
ensure_active_capacity(t, needed, realloc_ok) ==
    IF t.active_capacity >= needed THEN t.active_capacity
    ELSE LET doubled == t.active_capacity * 2
             atLeast == IF doubled < MinActiveCapacity
                        THEN MinActiveCapacity ELSE doubled
             new_capacity == IF atLeast < needed THEN needed ELSE atLeast
         IN  IF realloc_ok THEN new_capacity ELSE -1

octree_activate_cell(i, j, realloc_ok) ==
    /\ LET idx == octree_linear_index(tree.nx, i, j)
           needed_memory == tree.memory_used + SizeofU32
           capacity ==
               ensure_active_capacity(tree, tree.active_count + 1, realloc_ok)
           Result(value) == Returned("octree_activate_cell", <<i, j>>, value)
       IN  IF ~InBounds(tree, i, j)
           THEN ret' = Result(-1) /\ UNCHANGED tree
           ELSE IF ActiveAt(tree, idx) # {}
           THEN ret' = Result(0) /\ UNCHANGED tree
           ELSE IF needed_memory > tree.memory_budget
           THEN ret' = Result(-1) /\ UNCHANGED tree
           ELSE IF capacity = -1
           THEN ret' = Result(-1) /\ UNCHANGED tree
           ELSE /\ tree' = [tree EXCEPT
                              !.active_capacity = capacity,
                              !.active_indices = Append(@, idx),
                              !.active_count = @ + 1,
                              !.total_active = @ + 1,
                              !.memory_used = needed_memory]
                /\ ret' = Result(0)
    /\ UNCHANGED <<grid, slabVars, stateVars, kernelVars>>

\* active_indices[k] = active_indices[active_count - 1]; active_count--
RemoveAt(indices, k) ==
    LET last == Len(indices)
    IN  [n \in 1 .. last - 1 |-> IF n = k THEN indices[last] ELSE indices[n]]

octree_deactivate_cell(i, j) ==
    /\ LET idx == octree_linear_index(tree.nx, i, j)
           Result(value) == Returned("octree_deactivate_cell", <<i, j>>, value)
       IN  IF ~InBounds(tree, i, j)
           THEN ret' = Result(-1) /\ UNCHANGED tree
           ELSE IF ActiveAt(tree, idx) = {}
           THEN ret' = Result(-1) /\ UNCHANGED tree
           ELSE LET k == CHOOSE k \in ActiveAt(tree, idx) :
                            \A m \in ActiveAt(tree, idx) : k <= m
                IN  /\ tree' = [tree EXCEPT
                                  !.active_indices = RemoveAt(@, k),
                                  !.active_count = @ - 1,
                                  !.total_active = @ - 1]
                    /\ ret' = Result(0)
    /\ UNCHANGED <<grid, slabVars, stateVars, kernelVars>>

octree_is_active(t, i, j) ==
    IF ~InBounds(t, i, j) THEN 0
    ELSE IF ActiveAt(t, octree_linear_index(t.nx, i, j)) # {} THEN 1 ELSE 0

(***************************************************************************)
(* Grid front end (src/grid/grid.c)                                        *)
(***************************************************************************)
GridTypes == {"GRID_UNIFORM", "GRID_SPARSE_OCTREE"}
CELL_SIZE_ESTIMATE == 256
OCTREE_DEFAULT_BUDGET == 300 * 1024 * 1024
NullGrid == [type |-> "NULL"]
NullCell == [cells |-> "NULL", idx |-> 0]
CellPtr(idx) == [cells |-> "cells", idx |-> idx]

GridInit ==
    /\ tree = octree_create(GridSide, GridSide, TreeBudget)
    /\ grid = NullGrid

grid_create_ex(nx, ny, nz, type) ==
    /\ grid = NullGrid
    /\ grid' =
         IF type = "GRID_UNIFORM"
         THEN [type |-> type, nx |-> nx, ny |-> ny, nz |-> nz,
               cells |-> "NULL", has_octree_root |-> FALSE,
               memory_budget |-> nx * ny * nz * CELL_SIZE_ESTIMATE,
               active_count |-> nx * ny * nz, version |-> 0]
         ELSE [type |-> type, nx |-> nx, ny |-> ny, nz |-> nz,
               cells |-> "NULL", has_octree_root |-> TRUE,
               memory_budget |-> OCTREE_DEFAULT_BUDGET,
               active_count |-> 0, version |-> 0]
    /\ ret' = Returned("grid_create_ex", <<nx, ny>>, type)
    /\ UNCHANGED <<tree, slabVars, stateVars, kernelVars>>

\* the pointer grid_get_cell_3d returns
GetCell3d(g, i, j, k) ==
    IF g = NullGrid THEN NullCell
    ELSE IF i < 0 \/ i >= g.nx \/ j < 0 \/ j >= g.ny \/ k < 0 \/ k >= g.nz
    THEN NullCell
    ELSE IF g.type = "GRID_UNIFORM"
    THEN IF g.cells = "NULL" THEN NullCell
         ELSE CellPtr(k * g.nx * g.ny + j * g.nx + i)
    ELSE NullCell

grid_get_cell(i, j) ==
    /\ ret' = Returned("grid_get_cell", <<i, j>>, GetCell3d(grid, i, j, 0))
    /\ UNCHANGED <<tree, grid, slabVars, stateVars, kernelVars>>

grid_activate_cell(i, j) ==
    /\ ret' = Returned("grid_activate_cell", <<i, j>>,
                       IF grid = NullGrid THEN NullCell
                       ELSE IF grid.type = "GRID_UNIFORM"
                       THEN GetCell3d(grid, i, j, 0)
                       ELSE NullCell)
    /\ UNCHANGED <<tree, grid, slabVars, stateVars, kernelVars>>

grid_deactivate_cell(i, j) ==
    /\ ret' = Returned("grid_deactivate_cell", <<i, j>>, "void")
    /\ UNCHANGED <<tree, grid, slabVars, stateVars, kernelVars>>

(***************************************************************************)
(* The error-flag record (neg_error.h, neg_error.c)                        *)
(***************************************************************************)
\* NEG_SET_ERROR invocations made on one record in one behaviour.
MaxErrorSets == 2

\* The one-bit fields of NegErrorFlags (neg_error.h:32-58)
ErrorNames == {"overflow", "underflow", "nan_detected", "inf_detected",
               "so3_drift", "energy_drift", "step_failed", "mass_violation",
               "convergence_failed", "memory_error", "invalid_state"}
\* The fields the callers here set and clear.
ErrorNameInputs == {"overflow", "memory_error"}

\* NEG_SET_ERROR(flags, error_name) (neg_error.h:111-114)
NEG_SET_ERROR(s, error_name) ==
    /\ error_flags[s].total_errors < MaxErrorSets
    /\ error_flags' = [error_flags EXCEPT ![s] =
                          [@ EXCEPT ![error_name] = 1,
                                    !.total_errors = @ + 1]]
    /\ ret' = Returned("NEG_SET_ERROR", <<s, error_name>>, 0)
    /\ UNCHANGED <<sim, hist, hash_out, snapshot, slabVars, gridVars, kernelVars>>

\* NEG_CLEAR_ERROR(flags, error_name) (neg_error.h:116-118)
NEG_CLEAR_ERROR(s, error_name) ==
    /\ error_flags' = [error_flags EXCEPT ![s] = [@ EXCEPT ![error_name] = 0]]
    /\ ret' = Returned("NEG_CLEAR_ERROR", <<s, error_name>>, 0)
    /\ UNCHANGED <<sim, hist, hash_out, snapshot, slabVars, gridVars, kernelVars>>

\* neg_error_clear (neg_error.c:51-54)
neg_error_clear(s) ==
    /\ error_flags' = [error_flags EXCEPT ![s] = neg_error_init]
    /\ ret' = Returned("neg_error_clear", <<s>>, 0)
    /\ UNCHANGED <<sim, hist, hash_out, snapshot, slabVars, gridVars, kernelVars>>

\* neg_error_has_errors (neg_error.c:22-25)
neg_error_has_errors(s) ==
    /\ ret' = Returned("neg_error_has_errors", <<s>>,
                       error_flags[s].total_errors > 0)
    /\ UNCHANGED <<stateVars, slabVars, gridVars, kernelVars>>

(***************************************************************************)
(* LoD-gated dispatch (lod_dispatch.c), the dispatcher (integrators.c),    *)
(* RKMK4 (rkmk4.c) and the Clebsch integrator (clebsch_collective.c)       *)
(***************************************************************************)
\* Cells of the tile, and tile steps made in one behaviour.
TileCells == 2
MaxTileSteps == 2

\* float and double values are carried as integers in units of 1/Fx.
Fx == 10000
FxMul(a, b) == (a * b) \div Fx
Abs(a) == IF a < 0 THEN -a ELSE a
Sqrt(n) == CHOOSE r \in 0 .. n : r * r <= n /\ (r + 1) * (r + 1) > n

CELL_FLAG_ACTIVE == 1
CELL_FLAG_BOUNDARY == 2
CELL_FLAG_REQUIRES_SE3 == 4
CELL_FLAG_REQUIRES_LP == 8
\* flags & f
HasFlag(flags, f) == (flags \div f) % 2 = 1

LOD_FINE_THRESHOLD == 2
\* 1e-4 and 1e-6 in units of 1/Fx; the second lies below the unit.
ERROR_RK4_THRESHOLD == 1
ERROR_RKMK4_THRESHOLD == 0
INFINITY == 2147483647

Methods == {"INTEGRATOR_RK4", "INTEGRATOR_SYMPLECTIC_PRK", "INTEGRATOR_RKMK4",
            "INTEGRATOR_CLEBSCH_COLLECTIVE", "INTEGRATOR_EXPLICIT_EULER"}

\* Inputs: the flag words, LoD levels and vorticities of the cells of a tile,
\* the timesteps of a configuration, and what calloc does during one cell's
\* step ("lut": the table allocation of clebsch_lut_init fails, "cws": the
\* allocation of clebsch_workspace_create fails).
FlagInputs == {0, CELL_FLAG_REQUIRES_LP,
               CELL_FLAG_ACTIVE,
               CELL_FLAG_ACTIVE + CELL_FLAG_REQUIRES_LP}
LodInputs == {1, 2}
VorticityInputs == {2500}
DtTileInputs == {0, 1000}
AllocOutcomes == {"ok", "lut", "cws"}
ClebschBuilds == {"integrators.c", "clebsch_collective.c"}

GridCell(flags, lod, vorticity) ==
    [theta |-> 3000, surface_water |-> 0, SOM |-> 20000,
     temperature |-> 150000, vegetation |-> 5000,
     momentum_u |-> 0, momentum_v |-> 0,
     vorticity |-> vorticity, flags |-> flags, lod_level |-> lod]

CellInputs ==
    {GridCell(f, l, v) : f \in FlagInputs, l \in LodInputs, v \in VorticityInputs}

\* integrator_config_init (workspace.c:86-93) with the caller's dt
IntegratorConfig(dt) == [dt |-> dt, max_iter |-> 4, tol |-> 0, flags |-> 9]

\* The workspace handed out by integrator_workspace_create
\* (workspace.c:18-40): a zeroed slot with both LUT handles NULL.
ZeroTwist == <<0, 0, 0, 0, 0, 0>>
FreshWorkspace ==
    [k1 |-> ZeroTwist, k2 |-> ZeroTwist, k3 |-> ZeroTwist, k4 |-> ZeroTwist,
     clebsch_lut |-> <<>>, step_count |-> 0, fallback_count |-> 0]

\* The(S) is the element of a one-element set.  "The({e(v) : v \in {x}})"
\* names the value of x as v, so that x is computed once however often e
\* uses it.
The(S) == CHOOSE v \in S : TRUE

\* What a cell routine hands back: the cell, the storage outside the cell
\* (workspace, static LUT, allocator calls) and its return value.
Env(w, lut, allocs) == [ws |-> w, g_clebsch_lut |-> lut, heap_allocs |-> allocs]
Outcome(cell, env, result) == [cell |-> cell, env |-> env, result |-> result]

\* select_integrator_for_lod (lod_dispatch.c:47-66)
select_lie_poisson_first(cell) ==
    IF cell.lod_level < LOD_FINE_THRESHOLD THEN "INTEGRATOR_RK4"
    ELSE IF HasFlag(cell.flags, CELL_FLAG_REQUIRES_LP)
         THEN "INTEGRATOR_CLEBSCH_COLLECTIVE"
    ELSE "INTEGRATOR_RKMK4"
select_integrator_for_lod(cell) ==
    IF cell.lod_level < LOD_FINE_THRESHOLD THEN "INTEGRATOR_RK4"
    ELSE IF HasFlag(cell.flags, CELL_FLAG_REQUIRES_SE3) THEN "INTEGRATOR_RKMK4"
    ELSE IF HasFlag(cell.flags, CELL_FLAG_REQUIRES_LP)
         THEN "INTEGRATOR_CLEBSCH_COLLECTIVE"
    ELSE "INTEGRATOR_RKMK4"

\* should_escalate (lod_dispatch.c:75-90)
should_escalate(error, method) ==
    CASE method = "INTEGRATOR_RK4" -> error > ERROR_RK4_THRESHOLD
      [] method = "INTEGRATOR_RKMK4" -> error > ERROR_RKMK4_THRESHOLD
      [] OTHER -> FALSE

\* escalate_integrator (lod_dispatch.c:100-115)
escalate_integrator(current) ==
    CASE current = "INTEGRATOR_RK4" -> "INTEGRATOR_RKMK4"
      [] current = "INTEGRATOR_RKMK4" -> "INTEGRATOR_CLEBSCH_COLLECTIVE"
      [] OTHER -> current

\* estimate_integration_error (integrators.c:68-97)
estimate_integration_error(cell, prev_state, dt) ==
    IF dt <= 0 THEN INFINITY
    ELSE LET d_theta == cell.theta - prev_state.theta
             d_sw == cell.surface_water - prev_state.surface_water
             d_SOM == cell.SOM - prev_state.SOM
             d_T == cell.temperature - prev_state.temperature
             d_veg == cell.vegetation - prev_state.vegetation
             d_mu == cell.momentum_u - prev_state.momentum_u
             d_mv == cell.momentum_v - prev_state.momentum_v
             error_sq == d_theta * d_theta + d_sw * d_sw + d_SOM * d_SOM
                         + d_T * d_T + d_veg * d_veg + d_mu * d_mu + d_mv * d_mv
         IN  (Sqrt(error_sq) * Fx) \div dt

\* rk4_integrate_cell (integrators.c:108-117): the stub
rk4_integrate_cell(cell, cfg, env) == Outcome(cell, env, 0)

\* rkmk4_integrate_cell (rkmk4.c:276-297) with rkmk4_step_se3
\* (rkmk4.c:195-259): the zero twist is copied into the four stage buffers of
\* the workspace; the pose is a local and is not written back to the cell.
rkmk4_integrate_cell(cell, cfg, env) ==
    Outcome(cell,
            [env EXCEPT !.ws = [@ EXCEPT !.k1 = ZeroTwist, !.k2 = ZeroTwist,
                                         !.k3 = ZeroTwist, !.k4 = ZeroTwist]],
            0)

\* clebsch_lut_init (clebsch_collective.c:63-97): q_table[i*8+j] and
\* p_table[i*8+j] for bin i of CLEBSCH_LUT_SIZE
CLEBSCH_LUT_SIZE == 512
LutT(bin) == (bin * Fx) \div (CLEBSCH_LUT_SIZE - 1)
q_table(bin, j) == (LutT(bin) * (j + 1)) \div 10
p_table(bin, j) == ((Fx - LutT(bin)) * (j + 1)) \div 10
vorticity_max == Fx

\* clebsch_lift (clebsch_collective.c:123-158)
clebsch_lift(omega_z) ==
    LET mag == Abs(omega_z)
        t0 == (mag * Fx) \div vorticity_max
        t == IF t0 > Fx THEN Fx ELSE t0
        bin_f == t * (CLEBSCH_LUT_SIZE - 1)
        bin_lo == bin_f \div Fx
        bin_up == IF bin_f % Fx = 0 THEN bin_lo ELSE bin_lo + 1
        bin_hi == IF bin_up >= CLEBSCH_LUT_SIZE THEN CLEBSCH_LUT_SIZE - 1
                  ELSE bin_up
        alpha == bin_f - bin_lo * Fx
    IN  [q |-> [i \in 1 .. 8 |->
                  q_table(bin_lo, i - 1)
                  + FxMul(alpha, q_table(bin_hi, i - 1) - q_table(bin_lo, i - 1))],
         p |-> [i \in 1 .. 8 |->
                  p_table(bin_lo, i - 1)
                  + FxMul(alpha, p_table(bin_hi, i - 1) - p_table(bin_lo, i - 1))]]

RECURSIVE SumTo(_, _)
SumTo(f, n) == IF n = 0 THEN 0 ELSE f[n] + SumTo(f, n - 1)

\* compute_casimir (clebsch_collective.c:262-278)
compute_casimir(q, p) == SumTo([i \in 1 .. 8 |-> FxMul(q[i], p[i])], 8)

\* clebsch_symplectic_step (clebsch_collective.c:196-256): the three stages;
\* converged is the constant true, so the step returns 0.
clebsch_symplectic_step(q, p, dt) ==
    LET half == Fx \div 2
    IN  The({The({[q |-> q1,
                   p |-> [i \in 1 .. 8 |->
                            p1[i] + FxMul(FxMul(dt, half), -q1[i])]] :
                  q1 \in {[i \in 1 .. 8 |->
                             q[i] + FxMul(FxMul(dt, half), p1[i])]}}) :
             p1 \in {[i \in 1 .. 8 |-> p[i] + FxMul(FxMul(dt, half), -q[i])]}})

\* clebsch_project (clebsch_collective.c:160-190): omega_z of the result; the
\* Casimir sweep rescales the caller's local q only.
clebsch_project(q, p) == Abs(compute_casimir(q, p))

\* clebsch_workspace_create (clebsch_collective.c:35-48)
clebsch_workspace_create ==
    [casimir_initial |-> 0, casimir_tolerance |-> 0,
     step_count |-> 0, fallback_count |-> 0]

\* clebsch_integrate_cell as defined in clebsch_collective.c:315-360.
clebsch_integrate_cell_collective(cell, cfg, env, alloc) ==
    LET need_lut == ~env.g_clebsch_lut
        \* clebsch_lut_init: three calloc calls
        allocs1 == IF need_lut THEN env.heap_allocs + 3 ELSE env.heap_allocs
    IN  IF need_lut /\ alloc = "lut"
        THEN Outcome(cell, [env EXCEPT !.heap_allocs = allocs1], -1)
        ELSE
        LET need_cws == env.ws.clebsch_lut = <<>>
            allocs2 == IF need_cws THEN allocs1 + 1 ELSE allocs1
        IN  IF need_cws /\ alloc = "cws"
            THEN Outcome(cell,
                         [env EXCEPT !.g_clebsch_lut = TRUE,
                                     !.heap_allocs = allocs2], -1)
            ELSE
            The({
            LET cws == IF need_cws THEN clebsch_workspace_create
                       ELSE env.ws.clebsch_lut[1]
                cws2 == [cws EXCEPT
                            !.casimir_initial = compute_casimir(lifted.q, lifted.p),
                            !.step_count = @ + 1]
            IN  The({Outcome([cell EXCEPT !.vorticity =
                                             clebsch_project(stepped.q, stepped.p)],
                             [ws |-> [env.ws EXCEPT !.clebsch_lut = <<cws2>>],
                              g_clebsch_lut |-> TRUE,
                              heap_allocs |-> allocs2],
                             0) :
                     stepped \in {clebsch_symplectic_step(lifted.q, lifted.p,
                                                          cfg.dt)}}) :
            lifted \in {clebsch_lift(cell.vorticity)}})

\* clebsch_integrate_cell as defined in integrators.c:124-133: the stub
clebsch_integrate_cell_stub(cell, cfg, env) == Outcome(cell, env, 0)

\* The two files both define the external symbol clebsch_integrate_cell; the
\* call resolves to the one the build linked.
clebsch_integrate_cell(cell, cfg, env, alloc, build) ==
    IF build = "clebsch_collective.c"
    THEN clebsch_integrate_cell_collective(cell, cfg, env, alloc)
    ELSE clebsch_integrate_cell_stub(cell, cfg, env)

\* integrator_step_cell (integrators.c:29-62)
integrator_step_cell(cell, cfg, method, env, alloc, build) ==
    CASE method = "INTEGRATOR_RK4" -> rk4_integrate_cell(cell, cfg, env)
      [] method = "INTEGRATOR_RKMK4" -> rkmk4_integrate_cell(cell, cfg, env)
      [] method = "INTEGRATOR_CLEBSCH_COLLECTIVE" ->
             clebsch_integrate_cell(cell, cfg, env, alloc, build)
      [] OTHER -> Outcome(cell, env, -4)

\* "GridCell prev_state = *cell;" (lod_dispatch.c:141)
StaleCopy(cell) == [cell EXCEPT !.theta = 0]
CopyOf(cell) == cell

\* lod_gated_step_cell (lod_dispatch.c:137-177).  The outcome also lists the
\* methods attempted, in order, and the cell each attempt started from.
lod_gated_step_cell(cell, cfg, env, alloc, build) ==
    LET prev_state == CopyOf(cell)
        method == select_integrator_for_lod(cell)
    IN  The({
        IF first.result # 0
        THEN first @@ [methods |-> <<method>>, starts |-> <<cell>>]
        ELSE
        LET error == estimate_integration_error(first.cell, prev_state, cfg.dt)
        IN  IF should_escalate(error, method)
            THEN LET escalated_method == escalate_integrator(method)
                     second == integrator_step_cell(prev_state, cfg,
                                                    escalated_method, first.env,
                                                    alloc, build)
                 IN  second @@ [methods |-> <<method, escalated_method>>,
                                starts |-> <<cell, prev_state>>]
            ELSE first @@ [methods |-> <<method>>, starts |-> <<cell>>] :
        first \in {integrator_step_cell(cell, cfg, method, env, alloc, build)}})

\* lod_gated_step_tile: "if (!(cell->flags & CELL_FLAG_ACTIVE)) continue;"
\* (lod_dispatch.c:218-220)
SkipNone(cell) == FALSE
SkipCell(cell) == ~HasFlag(cell.flags, CELL_FLAG_ACTIVE)

\* lod_gated_step_tile: "if (result != 0) { /* Log error but continue with
\* other cells */ }" (lod_dispatch.c:224-227)
StopAtFailure(result) == result = 0
ContinueAfter(result) == TRUE

\* The loop of lod_gated_step_tile (lod_dispatch.c:214-228) from cell i on;
\* log is the list of lod_gated_step_cell calls made so far.
RECURSIVE TileLoop(_, _, _, _, _, _, _)
TileLoop(cs, i, cfg, env, alloc, build, log) ==
    IF i > Len(cs) THEN [cells |-> cs, env |-> env, log |-> log]
    ELSE IF SkipCell(cs[i])
    THEN TileLoop(cs, i + 1, cfg, env, alloc, build, log)
    ELSE The({IF ContinueAfter(done.log[Len(done.log)].result)
              THEN TileLoop(done.cells, i + 1, cfg, done.env, alloc, build,
                            done.log)
              ELSE done :
              done \in {The({[cells |-> [cs EXCEPT ![i] = r.cell],
                              env |-> r.env,
                              log |-> Append(log, [cell |-> i,
                                                   result |-> r.result,
                                                   methods |-> r.methods,
                                                   starts |-> r.starts])] :
                             r \in {lod_gated_step_cell(cs[i], cfg, env,
                                                        alloc[i], build)}})}})

\* A tile of cells drawn from the inputs, a fresh workspace, and either build.
DispatchInit ==
    /\ cells \in [1 .. TileCells -> CellInputs]
    /\ tile_ws = FreshWorkspace
    /\ linked_clebsch \in ClebschBuilds
    /\ g_clebsch_lut = FALSE
    /\ heap_allocs = 0
    /\ calls = <<>>

\* One tile, not yet stepped.
DispatchIdle ==
    /\ cells = [i \in 1 .. TileCells |->
                   GridCell(CELL_FLAG_ACTIVE, 1, 2500)]
    /\ tile_ws = FreshWorkspace
    /\ linked_clebsch = "clebsch_collective.c"
    /\ g_clebsch_lut = FALSE
    /\ heap_allocs = 0
    /\ calls = <<>>

\* lod_gated_step_tile (lod_dispatch.c:197-245) on the first num_cells cells
\* of the tile, with a configuration (or NULL) and the tile's workspace.
NumCellsInputs == 0 .. TileCells

lod_gated_step_tile(num_cells, cfg_null, dt, alloc) ==
    /\ Len(calls) < MaxTileSteps
    /\ IF num_cells = 0 \/ cfg_null
       THEN /\ ret' = Returned("lod_gated_step_tile", <<num_cells, cfg_null, dt>>, -1)
            /\ calls' = Append(calls, <<>>)
            /\ UNCHANGED <<cells, tile_ws, g_clebsch_lut, heap_allocs>>
       ELSE LET out == TileLoop(SubSeq(cells, 1, num_cells), 1,
                                IntegratorConfig(dt),
                                Env(tile_ws, g_clebsch_lut, heap_allocs),
                                alloc, linked_clebsch, <<>>)
            IN  /\ cells' = out.cells \o SubSeq(cells, num_cells + 1, Len(cells))
                /\ tile_ws' = out.env.ws
                /\ g_clebsch_lut' = out.env.g_clebsch_lut
                /\ heap_allocs' = out.env.heap_allocs
                /\ calls' = Append(calls, out.log)
                /\ ret' = Returned("lod_gated_step_tile",
                                   <<num_cells, cfg_null, dt>>, 0)
    /\ UNCHANGED <<linked_clebsch, numericVars, solverVars, slabVars, stateVars,
                   gridVars>>

\* lod_gated_step_cell called on cell i of the tile with a configuration (or
\* NULL) and the tile's workspace.
CellStepFlagInputs == {0, CELL_FLAG_REQUIRES_SE3, CELL_FLAG_REQUIRES_LP,
                       CELL_FLAG_REQUIRES_SE3 + CELL_FLAG_REQUIRES_LP}
CellStepInputs ==
    {GridCell(f, l, v) :
        f \in CellStepFlagInputs, l \in LodInputs, v \in VorticityInputs}

CellStepInit ==
    /\ cells \in [1 .. TileCells -> CellStepInputs]
    /\ tile_ws = FreshWorkspace
    /\ linked_clebsch \in ClebschBuilds
    /\ g_clebsch_lut = FALSE
    /\ heap_allocs = 0
    /\ calls = <<>>

lod_gated_step_cell_call(i, cfg_null, dt, alloc) ==
    /\ Len(calls) < MaxTileSteps
    /\ IF cfg_null
       THEN /\ ret' = Returned("lod_gated_step_cell", <<i, cfg_null, dt>>, -1)
            /\ calls' = Append(calls, <<>>)
            /\ UNCHANGED <<cells, tile_ws, g_clebsch_lut, heap_allocs>>
       ELSE \E out \in {lod_gated_step_cell(cells[i], IntegratorConfig(dt),
                                            Env(tile_ws, g_clebsch_lut,
                                                heap_allocs),
                                            alloc, linked_clebsch)} :
                /\ cells' = [cells EXCEPT ![i] = out.cell]
                /\ tile_ws' = out.env.ws
                /\ g_clebsch_lut' = out.env.g_clebsch_lut
                /\ heap_allocs' = out.env.heap_allocs
                /\ calls' = Append(calls, <<[cell |-> i, result |-> out.result,
                                            methods |-> out.methods,
                                            starts |-> out.starts]>>)
                /\ ret' = Returned("lod_gated_step_cell", <<i, cfg_null, dt>>,
                                   out.result)
    /\ UNCHANGED <<linked_clebsch, numericVars, solverVars, slabVars, stateVars,
                   gridVars>>

(***************************************************************************)
(* Regeneration parameters (src/solvers/regeneration_cascade.c)            *)
(***************************************************************************)
\* float parameter values are carried in units of 1/ParamUnit.
ParamUnit == 1000

\* The keys regeneration_cascade_load_params looks up, in its order.
ParamKeys == <<"r_V", "K_V", "lambda1", "lambda2", "theta_star", "SOM_star",
               "a1", "a2", "eta1", "K_vertical_multiplier">>

\* A parameter file is the sequence of its top-level entries: the key and the
\* number in the "value" field of the key's object (has_value is false for an
\* object without that field).
Entry(key, has_value, value) ==
    [key |-> key, has_value |-> has_value, value |-> value]
NoFile == <<[key |-> "fopen fails", has_value |-> FALSE, value |-> 0]>>

\* Inputs: the r_V and K_V written in the file, and the keys missing from it.
RvInputs == {-500, 0, 1, 120, 999, 1000, 1001, 2500}
KvInputs == {0, 700, 1000, 1001}
MissingKeyInputs == {"", "eta1", "r_V"}
ValuelessKeyInputs == {"", "r_V"}

ParamFile(r_V, K_V, missing, valueless) ==
    LET value(k) == CASE k = "r_V" -> r_V
                      [] k = "K_V" -> K_V
                      [] OTHER -> 500
        keys == SelectSeq(ParamKeys, LAMBDA k : k # missing)
    IN  [i \in 1 .. Len(keys) |-> Entry(keys[i], keys[i] # valueless, value(keys[i]))]

ParamFileInputs ==
    {ParamFile(r, k, m, v) : r \in RvInputs, k \in KvInputs,
                             m \in MissingKeyInputs, v \in ValuelessKeyInputs}
    \cup {NoFile}

\* The caller's RegenerationParams before the call.
BlankParams == [k \in {ParamKeys[i] : i \in 1 .. Len(ParamKeys)} |-> 0]

\* parse_json_param (regeneration_cascade.c:69-99): the first occurrence of the
\* key, then the first "value" field from there on.
First(hits) ==
    IF hits = {} THEN 0 ELSE CHOOSE i \in hits : \A j \in hits : i <= j

parse_json_param(json, key) ==
    LET key_pos == First({i \in DOMAIN json : json[i].key = key})
        value_pos == IF key_pos = 0 THEN 0
                     ELSE First({i \in key_pos .. Len(json) : json[i].has_value})
    IN  IF key_pos = 0 \/ value_pos = 0
        THEN [result |-> -1, value |-> 0]
        ELSE [result |-> 0, value |-> json[value_pos].value]

\* The range checks of regeneration_cascade_load_params
\* (regeneration_cascade.c:147-154)
RangeRejects(v) == v <= 0 \/ v > ParamUnit

\* regeneration_cascade_load_params (regeneration_cascade.c:101-165)
regeneration_cascade_load_params ==
    /\ IF params.json = NoFile
       THEN /\ ret' = Returned("regeneration_cascade_load_params", <<>>, -1)
            /\ UNCHANGED params
       ELSE LET parsed == [k \in DOMAIN params.record |->
                              parse_json_param(params.json, k)]
                errors == Cardinality({k \in DOMAIN parsed : parsed[k].result # 0})
                record == [k \in DOMAIN params.record |->
                              IF parsed[k].result = 0 THEN parsed[k].value
                              ELSE params.record[k]]
            IN  /\ params' = [params EXCEPT !.record = record]
                /\ ret' = Returned("regeneration_cascade_load_params", <<>>,
                                   IF errors # 0 THEN -1
                                   ELSE IF RangeRejects(record["r_V"]) THEN -1
                                   ELSE IF RangeRejects(record["K_V"]) THEN -1
                                   ELSE 0)
    /\ UNCHANGED <<barrier, solverVars, dispatchVars, slabVars, stateVars,
                   gridVars>>

ParamsInit ==
    \E json \in ParamFileInputs : params = [json |-> json, record |-> BlankParams]

ParamsIdle == params = [json |-> NoFile, record |-> BlankParams]

(***************************************************************************)
(* Q16.16 barrier gradients (include/barriers.h).  fixed_t is int32_t; the  *)
(* intermediates are int64_t and are cast back to fixed_t, which keeps the  *)
(* low 32 bits.  A 32-bit word is held as two 16-bit limbs <<hi, lo>>.      *)
(***************************************************************************)
FRACUNIT == 65536
BARRIER_STRENGTH == 524288
BARRIER_EPS == 64
INT32_MAX == 2147483647
INT32_MIN == (-INT32_MAX) - 1

\* (fixed_t) of the word <<hi, lo>>
ToInt32(w) ==
    IF w[1] >= 32768 THEN (w[1] - FRACUNIT) * FRACUNIT + w[2]
    ELSE w[1] * FRACUNIT + w[2]

\* The product of two 16-bit limbs, as <<hi, lo>>
Mul16(x, y) ==
    LET t1 == (x \div 256) * y
        t2 == (x % 256) * y
        s == (t1 % 256) * 256 + t2
    IN  <<(t1 \div 256) + (s \div FRACUNIT), s % FRACUNIT>>

\* barrier_fixed_mul (barriers.h:91-93): (fixed_t)(((int64_t)a * b) >> 16),
\* that is bits 16..47 of the two's-complement product.
barrier_fixed_mul(a, b) ==
    LET limbs(v) == <<v % FRACUNIT, (v \div FRACUNIT) % FRACUNIT,
                      IF v < 0 THEN FRACUNIT - 1 ELSE 0>>
        x == limbs(a)
        y == limbs(b)
        p00 == Mul16(x[1], y[1])
        p01 == Mul16(x[1], y[2])
        p10 == Mul16(x[2], y[1])
        p02 == Mul16(x[1], y[3])
        p11 == Mul16(x[2], y[2])
        p20 == Mul16(x[3], y[1])
        c1 == p00[1] + p01[2] + p10[2]
        c2 == (c1 \div FRACUNIT) + p01[1] + p10[1] + p02[2] + p11[2] + p20[2]
    IN  ToInt32(<<c2 % FRACUNIT, c1 % FRACUNIT>>)

\* One more quotient bit of a long division: the word q doubled plus the bit.
ShiftIn(q, bit) ==
    LET lo == 2 * q[2] + bit
        hi == 2 * q[1] + (lo \div FRACUNIT)
    IN  <<hi % FRACUNIT, lo % FRACUNIT>>

RECURSIVE DivBits(_, _, _, _)
DivBits(q, r, b, n) ==
    IF n = 0 THEN q
    ELSE IF r >= b - r THEN DivBits(ShiftIn(q, 1), r - (b - r), b, n - 1)
    ELSE DivBits(ShiftIn(q, 0), r + r, b, n - 1)

\* barrier_fixed_div (barriers.h:100-103): (fixed_t)(((int64_t)a << 16) / b)
\* for the operands the gradients pass, a >= 0 and b > 0.
barrier_fixed_div(a, b) ==
    IF b = 0 THEN 0
    ELSE LET q0 == a \div b
         IN  ToInt32(DivBits(<<q0 \div FRACUNIT, q0 % FRACUNIT>>, a % b, b, 16))

\* barrier_fixed_sub (barriers.h:108-113): the int64 difference, clamped
barrier_fixed_sub(a, b) ==
    IF b > 0 /\ a < INT32_MIN + b THEN INT32_MIN
    ELSE IF b < 0 /\ a > INT32_MAX + b THEN INT32_MAX
    ELSE a - b

\* barrier_fixed_add (barriers.h:118-123): the int64 sum, clamped
barrier_fixed_add(a, b) ==
    IF b > 0 /\ a > INT32_MAX - b THEN INT32_MAX
    ELSE IF b < 0 /\ a < INT32_MIN - b THEN INT32_MIN
    ELSE a + b

\* -grad on int32_t.  Negating INT32_MIN overflows; the builds in use wrap it
\* to INT32_MIN, and no input below produces that grad.
Negate(grad) == IF grad = INT32_MIN THEN INT32_MIN ELSE -grad

\* fixed_barrier_gradient (barriers.h:181-203)
BarrierGradient(x, x_min) ==
    LET dx == barrier_fixed_add(barrier_fixed_sub(x, x_min), BARRIER_EPS)
    IN  IF dx <= 0 THEN -INT32_MAX
        ELSE LET inv == barrier_fixed_div(FRACUNIT, dx)
                 inv_sq == barrier_fixed_mul(inv, inv)
                 grad == barrier_fixed_mul(BARRIER_STRENGTH, inv_sq)
             IN  Negate(grad)

\* fixed_barrier_gradient_upper (barriers.h:220-241)
BarrierGradientUpper(x, x_max) ==
    LET dx == barrier_fixed_add(barrier_fixed_sub(x_max, x), BARRIER_EPS)
    IN  IF dx <= 0 THEN INT32_MAX
        ELSE LET inv == barrier_fixed_div(FRACUNIT, dx)
                 inv_sq == barrier_fixed_mul(inv, inv)
             IN  barrier_fixed_mul(BARRIER_STRENGTH, inv_sq)

\* Inputs: a bound and the distance of x from it, in units of the last place.
BoundInputs == {0, FRACUNIT, -3 * FRACUNIT}
DistanceInputs == {0, 1, 2, 3, 5, 63, 64, 65, 100, 1000, 4096, FRACUNIT,
                   10 * FRACUNIT, 16777153, 20000000}
BarrierInputs ==
    {[x |-> b + d, bound |-> b] : b \in BoundInputs, d \in DistanceInputs}
    \cup {[x |-> b - d, bound |-> b] : b \in BoundInputs, d \in DistanceInputs}
    \cup {[x |-> INT32_MAX, bound |-> INT32_MIN],
          [x |-> INT32_MIN, bound |-> INT32_MAX]}

fixed_barrier_gradient ==
    /\ ret' = Returned("fixed_barrier_gradient", <<barrier.x, barrier.bound>>,
                       BarrierGradient(barrier.x, barrier.bound))
    /\ UNCHANGED <<barrier, params, solverVars, dispatchVars, slabVars, stateVars,
                   gridVars>>

fixed_barrier_gradient_upper ==
    /\ ret' = Returned("fixed_barrier_gradient_upper",
                       <<barrier.x, barrier.bound>>,
                       BarrierGradientUpper(barrier.x, barrier.bound))
    /\ UNCHANGED <<barrier, params, solverVars, dispatchVars, slabVars, stateVars,
                   gridVars>>

BarrierInit == barrier \in BarrierInputs

BarrierIdle == barrier = [x |-> FRACUNIT, bound |-> 0]

(***************************************************************************)
(* The deterministic generator (src/core/rng.c).  uint64_t and int64_t     *)
(* values are four 16-bit limbs, least significant first; an int64_t is    *)
(* the two's-complement word.                                              *)
(***************************************************************************)
NEG_RNG_DEFAULT_SEED == <<47806, 51966, 48879, 57005>>   \* 0xDEADBEEFCAFEBABE
NEG_RNG_MULTIPLIER == <<56605, 20332, 62609, 9541>>      \* 0x2545F4914F6CDD1D
ZeroW == <<0, 0, 0, 0>>
INT64_MIN == <<0, 0, 0, 32768>>
INT64_MAX == <<65535, 65535, 65535, 32767>>

\* The int64_t of a small integer
I64(n) ==
    IF n >= 0 THEN <<n % LimbBase, n \div LimbBase, 0, 0>>
    ELSE <<n % LimbBase, (n \div LimbBase) % LimbBase, LimbBase - 1, LimbBase - 1>>

\* Limb i of a word, zero outside the word
Limb(a, i) == IF i \in 1 .. 4 THEN a[i] ELSE 0

\* a ^ b
XorW(a, b) == [i \in 1 .. 4 |-> Xor(a[i], b[i])]

\* a >> k and a << k on uint64_t, 0 < k < 64
ShrW(a, k) ==
    LET q == k \div 16
        r == k % 16
    IN  [i \in 1 .. 4 |-> (Limb(a, i + q) \div 2 ^ r)
                          + (Limb(a, i + q + 1) % 2 ^ r) * 2 ^ (16 - r)]
ShlW(a, k) ==
    LET q == k \div 16
        r == k % 16
    IN  [i \in 1 .. 4 |-> ((Limb(a, i - q) * 2 ^ r) % LimbBase)
                          + (Limb(a, i - q - 1) \div 2 ^ (16 - r))]

\* a + b and a - b modulo 2^64
AddW(a, b) ==
    LET s1 == a[1] + b[1]
        s2 == a[2] + b[2] + (s1 \div LimbBase)
        s3 == a[3] + b[3] + (s2 \div LimbBase)
        s4 == a[4] + b[4] + (s3 \div LimbBase)
    IN  <<s1 % LimbBase, s2 % LimbBase, s3 % LimbBase, s4 % LimbBase>>
SubW(a, b) ==
    LET d1 == a[1] - b[1]
        d2 == a[2] - b[2] + (d1 \div LimbBase)
        d3 == a[3] - b[3] + (d2 \div LimbBase)
        d4 == a[4] - b[4] + (d3 \div LimbBase)
    IN  <<d1 % LimbBase, d2 % LimbBase, d3 % LimbBase, d4 % LimbBase>>

\* a * b modulo 2^64
MulW(a, b) ==
    LET p(i, j) == Mul16(a[i], b[j])
        c1 == p(1, 1)[2]
        c2 == p(1, 1)[1] + p(1, 2)[2] + p(2, 1)[2]
        c3 == (c2 \div LimbBase) + p(1, 2)[1] + p(2, 1)[1]
              + p(1, 3)[2] + p(2, 2)[2] + p(3, 1)[2]
        c4 == (c3 \div LimbBase) + p(1, 3)[1] + p(2, 2)[1] + p(3, 1)[1]
              + p(1, 4)[2] + p(2, 3)[2] + p(3, 2)[2] + p(4, 1)[2]
    IN  <<c1, c2 % LimbBase, c3 % LimbBase, c4 % LimbBase>>

\* a < b on uint64_t
LtW(a, b) ==
    \E i \in 1 .. 4 : a[i] < b[i] /\ \A j \in i + 1 .. 4 : a[j] = b[j]

\* a < b on int64_t
IsNegative(a) == a[4] >= 32768
LtS(a, b) ==
    IF IsNegative(a) # IsNegative(b) THEN IsNegative(a) ELSE LtW(a, b)
LeS(a, b) == ~LtS(b, a)

\* a % m on uint64_t, m # 0: the long division.  ModStep takes bit n of a into
\* the remainder r; ModBits does so for bits hi down to lo, the upper half
\* before the lower.
BitOf(a, n) == (a[(n \div 16) + 1] \div 2 ^ (n % 16)) % 2
ModStep(a, m, r, n) ==
    LET carry == BitOf(r, 63)
        twice == AddW(ShlW(r, 1), <<BitOf(a, n), 0, 0, 0>>)
    IN  IF carry = 1 \/ ~LtW(twice, m) THEN SubW(twice, m) ELSE twice
RECURSIVE ModBits(_, _, _, _, _)
ModBits(a, m, r, hi, lo) ==
    IF hi = lo THEN ModStep(a, m, r, hi)
    ELSE LET mid == (hi + lo + 1) \div 2
         IN  The({ModBits(a, m, upper, mid - 1, lo) :
                  upper \in {ModBits(a, m, r, hi, mid)}})
ModW(a, m) == ModBits(a, m, ZeroW, 63, 0)

\* neg_rng_seed (rng.c:23-28)
SeedState(seed) == IF seed = ZeroW THEN NEG_RNG_DEFAULT_SEED ELSE seed

\* neg_rng_next (rng.c:30-46): the new state and the value returned
XorShift(state) ==
    LET x0 == IF state = ZeroW THEN NEG_RNG_DEFAULT_SEED ELSE state
        x1 == XorW(x0, ShrW(x0, 12))
        x2 == XorW(x1, ShlW(x1, 25))
    IN  XorW(x2, ShrW(x2, 27))
neg_rng_next(state) ==
    The({[state |-> x, value |-> MulW(x, NEG_RNG_MULTIPLIER)] :
         x \in {XorShift(state)}})

\* Signed overflow is undefined: a build either wraps the result or traps.
SignedOverflowBuilds == {"wraps", "traps"}
SubOverflows(a, b) ==
    IsNegative(a) # IsNegative(b) /\ IsNegative(SubW(a, b)) # IsNegative(a)
AddOverflows(a, b) ==
    IsNegative(a) = IsNegative(b) /\ IsNegative(AddW(a, b)) # IsNegative(a)

\* What a call of neg_rng_range comes to: a returned value, or no return.
Completes(state, v) == [completed |-> TRUE, state |-> state, v |-> v]
Aborts(state, why) == [completed |-> FALSE, state |-> state, v |-> why]

\* neg_rng_range (rng.c:64-71)
RangeOutcome(state, min, max, build) ==
    IF ~LtS(min, max) THEN Completes(state, min)
    ELSE IF build = "traps"
            /\ \/ SubOverflows(max, min)
               \/ AddOverflows(SubW(max, min), I64(1))
    THEN Aborts(state, "signed overflow")
    ELSE The({
         IF range = ZeroW THEN Aborts(drawn.state, "division by zero")
         ELSE The({IF build = "traps" /\ AddOverflows(min, offset)
                   THEN Aborts(drawn.state, "signed overflow")
                   ELSE Completes(drawn.state, AddW(min, offset)) :
                   offset \in {ModW(drawn.value, range)}}) :
         range \in {AddW(SubW(max, min), I64(1))},
         drawn \in {neg_rng_next(state)}})

\* Inputs: seeds, and the ends of the range.
MaxDraws == 2
SeedInputs == {ZeroW, I64(1), NEG_RNG_DEFAULT_SEED}
RangeEndInputs ==
    {INT64_MIN, I64(-100), I64(-1), I64(0), I64(1), I64(100), INT64_MAX}

neg_rng_seed(seed) ==
    /\ rng' = [state |-> SeedState(seed), draws |-> 0]
    /\ ret' = Returned("neg_rng_seed", <<seed>>, 0)
    /\ UNCHANGED <<hydroVars, numericVars, dispatchVars, slabVars, stateVars,
                   gridVars>>

neg_rng_range(min, max, build) ==
    /\ rng.draws < MaxDraws
    /\ \E out \in {RangeOutcome(rng.state, min, max, build)} :
           /\ rng' = [state |-> out.state, draws |-> rng.draws + 1]
           /\ ret' = Returned("neg_rng_range", <<min, max>>,
                              [completed |-> out.completed, v |-> out.v])
    /\ UNCHANGED <<hydroVars, numericVars, dispatchVars, slabVars, stateVars,
                   gridVars>>

\* A NegRNG seeded by neg_rng_seed.
RngInit == \E seed \in SeedInputs : rng = [state |-> SeedState(seed), draws |-> 0]

RngIdle == rng = [state |-> NEG_RNG_DEFAULT_SEED, draws |-> 0]

\* The generator and the solver state while other subsystems run.
(***************************************************************************)
(* hydrology_richards_lite.c: the Richards-Lite solver step.  Water        *)
(* contents and the dimensionless coefficients of the tridiagonal system   *)
(* are counted in units of 1/ThetaUnit, conductivities and fluxes in nm/s, *)
(* depths of surface water in micrometres, layer thickness in mm, time in  *)
(* seconds, and the intervention multipliers in tenths.                    *)
(***************************************************************************)
ThetaUnit == 100000

\* richards_lite_init (hydrology_richards_lite.c:126-137): the default soil.
LUT_THETA_S == 40000
LUT_THETA_R == 5000
LUT_K_S == 5000
THETA_MIN == 1000
THETA_MAX == 60000

\* "g_vG_lut_default.K_of_theta[i] = vG_K_exact(theta, ...)"
\* (hydrology_richards_lite.c:153-163), sampled at every LutStep from
\* THETA_MIN to THETA_MAX.
LutStep == 1000
K_of_theta ==
    <<0, 0, 0, 0, 0, 0, 0, 0, 0, 0, 0, 0, 0, 0, 0, 0, 1, 1, 2, 2,
      4, 6, 8, 12, 17, 24, 33, 45, 61, 83, 112, 151, 202, 272, 368, 502,
      699, 1005, 1564, 4944, 5000, 5000, 5000, 5000, 5000, 5000, 5000, 5000,
      5000, 5000, 5000, 5000, 5000, 5000, 5000, 5000, 5000, 5000, 5000, 5000>>

\* vG_K_lookup (hydrology_richards_lite_internal.h:235-255).  K_s * 1e-12
\* is nothing at this resolution.
vG_K_lookup(theta) ==
    IF theta >= LUT_THETA_S THEN LUT_K_S
    ELSE IF theta <= LUT_THETA_R THEN 0
    ELSE LET idx == (theta - THETA_MIN) \div LutStep
             frac == (theta - THETA_MIN) % LutStep
         IN  IF idx >= Len(K_of_theta) - 1 THEN K_of_theta[Len(K_of_theta)]
             ELSE (K_of_theta[idx + 1] * (LutStep - frac)
                   + K_of_theta[idx + 2] * frac) \div LutStep

\* clamp (hydrology_richards_lite_internal.h:378-382)
clamp(x, min, max) == IF x < min THEN min ELSE IF x > max THEN max ELSE x

\* x * y and x / denom of two dimensionless values; every divisor of the
\* Thomas algorithm is at least 1 because b[k] = 1 - a[k] - c[k] with
\* a[k], c[k] <= 0.
Product(x, y) == (x * y) \div ThetaUnit
Quotient(x, denom) == x - (x * (denom - ThetaUnit)) \div denom

\* "coeff * K" with "coeff = dt / (dz * dz)" (hydrology_richards_lite.c:253)
CoeffTimes(dt, dz, K) == (dt * K * 100) \div (dz * dz)

\* "dt * rainfall / dz", "dt * K_eff_k / dz", "E_eff * dt / cell->dz"
FluxTerm(dt, q, dz) == (dt * q) \div (10 * dz)

\* "K_eff_k = K_k * M_K_zz" (hydrology_richards_lite.c:241-245)
K_eff(cell) == (vG_K_lookup(cell.theta) * cell.M_K_zz) \div 10

\* "2.0f * K_eff_k * K_k_minus / (K_eff_k + K_k_minus + 1e-12f)"
HarmonicMean(K1, K2) == IF K1 + K2 = 0 THEN 0 ELSE (2 * K1 * K2) \div (K1 + K2)

\* One row of the tridiagonal system (hydrology_richards_lite.c:236-292);
\* layer k of the source is column[k + 1] here.
SystemRow(column, k, dt, rainfall, use_free_drainage) ==
    LET nz == Len(column)
        cell == column[k]
        K == K_eff(cell)
    IN  IF k = 1
        THEN LET c == -CoeffTimes(dt, cell.dz, K)
             IN  [a |-> 0, c |-> c, b |-> ThetaUnit - c,
                  d |-> cell.theta + FluxTerm(dt, rainfall, cell.dz)]
        ELSE IF k = nz
        THEN LET a == -CoeffTimes(dt, cell.dz, K)
             IN  [a |-> a, c |-> 0, b |-> ThetaUnit - a,
                  d |-> IF use_free_drainage
                        THEN cell.theta + FluxTerm(dt, K, cell.dz)
                        ELSE cell.theta]
        ELSE LET a == -CoeffTimes(dt, cell.dz,
                                  HarmonicMean(K, K_eff(column[k - 1])))
                 c == -CoeffTimes(dt, cell.dz,
                                  HarmonicMean(K, K_eff(column[k + 1])))
             IN  [a |-> a, c |-> c, b |-> ThetaUnit - a - c, d |-> cell.theta]

\* The function-local static arrays of solve_vertical_implicit
\* (hydrology_richards_lite.c:224-228), thomas_algorithm
\* (hydrology_richards_lite_internal.h:292-293), solve_horizontal_explicit
\* (hydrology_richards_lite.c:363) and richards_lite_step
\* (hydrology_richards_lite.c:462), zero until first written.
MaxLayers == 3
ZeroRow == [k \in 1 .. MaxLayers |-> 0]
ZeroHydCell ==
    [theta |-> 0, h_surface |-> 0, zeta |-> 0, theta_r |-> 0,
     porosity_eff |-> 0, M_K_zz |-> 0, kappa_evap |-> 0, Delta_zeta |-> 0,
     zeta_c |-> 0, a_c |-> 0, dz |-> 0]
ZeroScratch ==
    [a |-> ZeroRow, b |-> ZeroRow, c |-> ZeroRow, d |-> ZeroRow,
     theta_new |-> ZeroRow, c_prime |-> ZeroRow, d_prime |-> ZeroRow,
     h_new |-> 0, surface_cells |-> ZeroHydCell]

\* Rows 1 .. n of a static array overwritten, the rest left as it was.
Stored(array, n, values) ==
    [k \in 1 .. MaxLayers |-> IF k <= n THEN values[k] ELSE array[k]]

\* "Build tridiagonal system" (hydrology_richards_lite.c:235-293)
BuildSystem(sc, column, dt, rainfall, use_free_drainage) ==
    LET nz == Len(column)
        row == [k \in 1 .. nz |->
                   SystemRow(column, k, dt, rainfall, use_free_drainage)]
    IN  [sc EXCEPT !.a = Stored(sc.a, nz, [k \in 1 .. nz |-> row[k].a]),
                   !.b = Stored(sc.b, nz, [k \in 1 .. nz |-> row[k].b]),
                   !.c = Stored(sc.c, nz, [k \in 1 .. nz |-> row[k].c]),
                   !.d = Stored(sc.d, nz, [k \in 1 .. nz |-> row[k].d])]

\* thomas_algorithm (hydrology_richards_lite_internal.h:285-315) on the
\* static arrays, for a system of n rows.
thomas_algorithm(sc, n) ==
    LET denom[i \in 1 .. n] ==
            IF i = 1 THEN sc.b[1]
            ELSE sc.b[i] - Product(sc.a[i],
                                   Quotient(sc.c[i - 1], denom[i - 1]))
        c_prime == [i \in 1 .. n |-> Quotient(sc.c[i], denom[i])]
        d_prime[i \in 1 .. n] ==
            IF i = 1 THEN Quotient(sc.d[1], denom[1])
            ELSE Quotient(sc.d[i] - Product(sc.a[i], d_prime[i - 1]),
                          denom[i])
        x[j \in 1 .. n] ==
            LET i == n + 1 - j
            IN  IF i = n THEN d_prime[n]
                ELSE d_prime[i] - Product(c_prime[i], x[j - 1])
    IN  [sc EXCEPT !.c_prime = Stored(sc.c_prime, n, c_prime),
                   !.d_prime = Stored(sc.d_prime, n, d_prime),
                   !.theta_new = Stored(sc.theta_new, n,
                                        [i \in 1 .. n |-> x[n + 1 - i]])]

\* "Check convergence" (hydrology_richards_lite.c:298-303)
RECURSIVE MaxChange(_, _, _)
MaxChange(theta_new, column, k) ==
    IF k = 0 THEN 0
    ELSE LET change == Abs(theta_new[k] - column[k].theta)
             rest == MaxChange(theta_new, column, k - 1)
         IN  IF change > rest THEN change ELSE rest

\* "Update theta" (hydrology_richards_lite.c:305-315)
UpdateTheta(theta_new, column) ==
    [k \in 1 .. Len(column) |->
        [column[k] EXCEPT !.theta = clamp(theta_new[k], column[k].theta_r,
                                          column[k].porosity_eff)]]

\* "const int max_iter = 20; const float tol = 1e-4f;"
\* (hydrology_richards_lite.c:231-232)
max_iter == 20
tol == 10

\* connectivity_function(...) < 0.1f (hydrology_richards_lite.c:377-383,
\* hydrology_richards_lite_internal.h:333-343): 1 / (1 + exp(e)) < 0.1 when
\* e > ln 9, with e = -a_c * (zeta - zeta_c) counted in 1e-7.
LN9 == 21972246
BelowConnectivity(cell) == -(cell.a_c * (cell.zeta - cell.zeta_c)) > LN9

\* solve_horizontal_explicit (hydrology_richards_lite.c:348-410) on a grid
\* of one column: every neighbouring head is the cell's own, the Laplacian
\* is 0, and each sub-step stores the same h_new.
HorizontalNew(cell) ==
    IF BelowConnectivity(cell) THEN cell.h_surface
    ELSE IF cell.h_surface < 0 THEN 0 ELSE cell.h_surface

\* A call of richards_lite_step in progress: the caller's cell array (one
\* column), the arguments, the place reached, the Picard iterations made on
\* the column and the max_change of each.
HydCall(column, p, dt, rainfall) ==
    [pc |-> "call", cells |-> column, given |-> column, params |-> p,
     dt |-> dt, rainfall |-> rainfall, changes |-> <<>>, steps |-> 0]
NoHydCall ==
    [pc |-> "idle", cells |-> <<>>, given |-> <<>>, params |-> <<>>,
     dt |-> 0, rainfall |-> 0, changes |-> <<>>, steps |-> 0]

\* richards_lite_step (hydrology_richards_lite.c:420-499) advanced from one
\* access of the static arrays to the next.
Advance(th, sc, initialized) ==
    CASE th.pc = "call" ->
           IF ~initialized THEN [th |-> [th EXCEPT !.pc = "done"], sc |-> sc]
           ELSE LET top == th.cells[1]
                    zeta_max == top.zeta_c + top.Delta_zeta
                    zeta == IF top.h_surface < zeta_max THEN top.h_surface
                            ELSE zeta_max
                IN  [th |-> [th EXCEPT !.pc = "build",
                                       !.cells[1].zeta = zeta],
                     sc |-> sc]
      [] th.pc = "build" ->
           [th |-> [th EXCEPT !.pc = "solve"],
            sc |-> BuildSystem(sc, th.cells, th.dt, th.rainfall,
                               th.params.use_free_drainage)]
      [] th.pc = "solve" ->
           [th |-> [th EXCEPT !.pc = "update"],
            sc |-> thomas_algorithm(sc, Len(th.cells))]
      [] th.pc = "update" ->
           LET max_change == MaxChange(sc.theta_new, th.cells, Len(th.cells))
               made == Len(th.changes) + 1
           IN  [th |-> [th EXCEPT
                          !.pc = IF max_change < tol
                                    \/ made >= max_iter
                                 THEN "extract" ELSE "build",
                          !.cells = UpdateTheta(sc.theta_new, th.cells),
                          !.changes = Append(th.changes, max_change)],
                sc |-> sc]
      [] th.pc = "extract" ->
           [th |-> [th EXCEPT !.pc = "horizontal"],
            sc |-> [sc EXCEPT !.surface_cells = th.cells[1]]]
      [] th.pc = "horizontal" ->
           LET h_new == HorizontalNew(sc.surface_cells)
           IN  [th |-> [th EXCEPT !.pc = "copyback"],
                sc |-> [sc EXCEPT !.h_new = h_new,
                                  !.surface_cells.h_surface = h_new]]
      [] th.pc = "copyback" ->
           [th |-> [th EXCEPT
                      !.pc = "evaporate",
                      !.cells[1].h_surface = sc.surface_cells.h_surface,
                      !.cells[1].zeta = sc.surface_cells.zeta],
            sc |-> sc]
      [] th.pc = "evaporate" ->
           LET top == th.cells[1]
               E_eff == (top.kappa_evap * th.params.E_bare_ref) \div 10
               theta == top.theta - FluxTerm(th.dt, E_eff, top.dz)
           IN  [th |-> [th EXCEPT
                          !.pc = "done",
                          !.cells[1].theta = IF theta < top.theta_r
                                             THEN top.theta_r ELSE theta],
                sc |-> sc]
      [] OTHER -> [th |-> th, sc |-> sc]

\* n accesses made in a row by one caller.
RECURSIVE Advanced(_, _, _, _)
Advanced(th, sc, initialized, n) ==
    IF n = 0 THEN [th |-> th, sc |-> sc]
    ELSE IF n = 1 THEN Advance(th, sc, initialized)
    ELSE The({Advanced(half.th, half.sc, initialized, n - n \div 2) :
              half \in {Advanced(th, sc, initialized, n \div 2)}})

\* The whole call, made by one caller with no other call in progress: the
\* entry, three accesses for each Picard iteration, and four after the loop.
RunToReturn(th, sc, initialized) ==
    Advanced(th, sc, initialized, 3 * max_iter + 5)

\* Inputs: cells as create_uniform_grid of the solver's test makes them
\* (tests/test_richards_lite.c:108-165) with porosity_eff at the top of its
\* range, dry or near saturation; parameter records; time steps; rainfall.
HydCell(theta, h_surface) ==
    [theta |-> theta, h_surface |-> h_surface, zeta |-> 0, theta_r |-> 5000,
     porosity_eff |-> 45000, M_K_zz |-> 10, kappa_evap |-> 10,
     Delta_zeta |-> 0, zeta_c |-> 10000, a_c |-> 10, dz |-> 100]
ThetaInputs == {15000, 42000}
SurfaceWaterInputs == {0, 5000}
ColumnOf(thetas, h_surface) ==
    [k \in 1 .. Len(thetas) |->
        HydCell(thetas[k], IF k = 1 THEN h_surface ELSE 0)]
ColumnInputs ==
    {ColumnOf(thetas, h) :
        thetas \in UNION {[1 .. nz -> ThetaInputs] : nz \in 1 .. MaxLayers},
        h \in SurfaceWaterInputs}
RichardsLiteParams(picard_tol, picard_max_iter, use_free_drainage) ==
    [K_r |-> 100000, E_bare_ref |-> 100, CFL_factor |-> 5,
     picard_tol |-> picard_tol, picard_max_iter |-> picard_max_iter,
     use_free_drainage |-> use_free_drainage]
PicardInputs == {<<10, 20>>, <<100, 20>>, <<10, 5>>}
SolverParamInputs ==
    {RichardsLiteParams(pi[1], pi[2], drain) :
        pi \in PicardInputs, drain \in BOOLEAN}
SolverDtInputs == {1, 60}
RainfallInputs == {0, 2778}
MaxSolverSteps == 1
HydCallers == {1, 2}

\* richards_lite_init (hydrology_richards_lite.c:120-186)
richards_lite_init ==
    /\ g_lut_initialized' = TRUE
    /\ ret' = Returned("richards_lite_init", <<>>, 0)
    /\ UNCHANGED <<scratch, hyd, rng, numericVars, dispatchVars, slabVars,
                   stateVars, gridVars>>

\* richards_lite_step (hydrology_richards_lite.c:420-499) called by t on its
\* array while no other call is in progress.
richards_lite_step(t, p, dt, rainfall) ==
    /\ \A u \in HydCallers : hyd[u].pc \in {"idle", "done"}
    /\ Len(hyd[t].cells) > 0
    /\ hyd[t].steps < MaxSolverSteps
    /\ \E out \in {RunToReturn(HydCall(hyd[t].cells, p, dt, rainfall), scratch,
                                g_lut_initialized)} :
           /\ hyd' = [hyd EXCEPT ![t] = [out.th EXCEPT
                                            !.steps = hyd[t].steps + 1]]
           /\ scratch' = out.sc
    /\ ret' = Returned("richards_lite_step", <<t, p, dt, rainfall>>, 0)
    /\ UNCHANGED <<g_lut_initialized, rng, numericVars, dispatchVars, slabVars,
                   stateVars, gridVars>>

\* The same call entered by t while another caller may be inside its own.
richards_lite_step_enter(t, p, dt, rainfall) ==
    /\ hyd[t].pc = "idle"
    /\ Len(hyd[t].cells) > 0
    /\ hyd' = [hyd EXCEPT ![t] = HydCall(hyd[t].cells, p, dt, rainfall)]
    /\ ret' = Returned("richards_lite_step", <<t, p, dt, rainfall>>, 0)
    /\ UNCHANGED <<scratch, g_lut_initialized, rng, numericVars, dispatchVars,
                   slabVars, stateVars, gridVars>>

\* t goes on to its next access of the static arrays.
richards_lite_step_advance(t) ==
    /\ hyd[t].pc \notin {"idle", "done"}
    /\ \E next \in {Advance(hyd[t], scratch, g_lut_initialized)} :
           /\ hyd' = [hyd EXCEPT ![t] = next.th]
           /\ scratch' = next.sc
    /\ UNCHANGED <<ret, g_lut_initialized, rng, numericVars, dispatchVars,
                   slabVars, stateVars, gridVars>>

\* One caller holding a cell array, the solver not yet initialised.
HydroInit ==
    /\ g_lut_initialized = FALSE
    /\ scratch = ZeroScratch
    /\ \E column \in ColumnInputs :
           hyd = [t \in HydCallers |->
                     IF t = 1 THEN [NoHydCall EXCEPT !.cells = column]
                     ELSE NoHydCall]

\* Two callers holding one dry cell array each, the solver initialised.
RaceColumnInputs ==
    {ColumnOf(<<15000>>, 0), ColumnOf(<<16000, 16000>>, 5000)}
HydroRaceInit ==
    /\ g_lut_initialized = TRUE
    /\ scratch = ZeroScratch
    /\ hyd \in [HydCallers ->
                  {[NoHydCall EXCEPT !.cells = column] :
                      column \in RaceColumnInputs}]

HydroIdle ==
    /\ g_lut_initialized = FALSE
    /\ scratch = ZeroScratch
    /\ hyd = [t \in HydCallers |-> NoHydCall]

SolverIdle == RngIdle /\ HydroIdle

NumericIdle == ParamsIdle /\ BarrierIdle /\ SolverIdle

(***************************************************************************)
(* The slab under a main thread and two workers                            *)
(***************************************************************************)
\* The state after construction: static storage of the slab, two simulations
\* from state_create, an octree from octree_create.
Init == SlabInit /\ StateInit /\ GridInit /\ DispatchIdle /\ NumericIdle

SlabStep(t) ==
    \/ integrator_workspace_create(t)
    \/ workspace_slab_alloc_integrator(t)
    \/ integrator_workspace_create_init(t)
    \/ workspace_slab_alloc_clebsch(t)
    \/ integrator_workspace_destroy(t)
    \/ workspace_slab_free_integrator(t)
    \/ workspace_slab_free_clebsch(t)

SlabNext ==
    \/ workspace_slab_init
    \/ SpawnWorkers
    \/ \E t \in Claimants : SlabStep(t)

SpecSlab == Init /\ [][SlabNext]_vars

\* Fairness for progress properties: a thread standing at a compare-exchange
\* executes it, and a weak compare-exchange whose comparison succeeds does not
\* fail spuriously for ever.
CasSucceeds(t) ==
    \/ AllocIntegratorCas(t)
    \/ AllocClebschCas(t)
    \/ FreeIntegratorCas(t)
    \/ FreeClebschCas(t)

SpecSlabLive ==
    Init /\ [][SlabNext]_vars
    /\ \A t \in Claimants : SF_vars(CasSucceeds(t))

(***************************************************************************)
(* The slab with its threads also querying it and initialising it again    *)
(***************************************************************************)
SlabQueryNext ==
    \/ SlabNext
    \/ integrator_init
    \/ \E t \in Claimants : workspace_slab_is_exhausted(t)

SpecSlabQuery == Init /\ [][SlabQueryNext]_vars

(***************************************************************************)
(* Two simulations of one configuration, stepped and hashed                *)
(***************************************************************************)
StateNext ==
    \/ \E s \in SimIds, dt \in DtInputs : state_step(s, dt)
    \/ \E s \in SimIds, fill \in GarbageBytes : state_hash(s, fill)

SpecState == Init /\ [][StateNext]_vars

(***************************************************************************)
(* Two simulations of one configuration, stepped, saved and restored       *)
(***************************************************************************)
SnapshotNext ==
    \/ \E s \in SimIds, dt \in DtInputs : state_step(s, dt)
    \/ \E s \in SimIds, max_len \in MaxLenInputs, fill \in GarbageBytes :
           state_to_binary(s, max_len, fill)
    \/ \E s \in SimIds, buffer \in ResetBuffers :
           state_reset_from_binary(s, buffer)

SpecSnapshot == Init /\ [][SnapshotNext]_vars

(***************************************************************************)
(* Two simulations of one configuration: one is saved, the other restored  *)
(* from the saved bytes, and both are hashed                               *)
(***************************************************************************)
RoundTripNext ==
    \/ \E s \in SimIds, dt \in DtInputs : state_step(s, dt)
    \/ \E s \in SimIds, max_len \in MaxLenInputs, fill \in GarbageBytes :
           state_to_binary(s, max_len, fill)
    \/ \E s \in SimIds :
           snapshot # <<>> /\ state_reset_from_binary(s, snapshot)
    \/ \E s \in SimIds, fill \in GarbageBytes : state_hash(s, fill)

SpecRoundTrip == Init /\ [][RoundTripNext]_vars

(***************************************************************************)
(* An octree and a grid driven by one caller                               *)
(***************************************************************************)
GridNext ==
    \/ \E i, j \in CoordInputs, realloc_ok \in BOOLEAN :
           octree_activate_cell(i, j, realloc_ok)
    \/ \E i, j \in CoordInputs : octree_deactivate_cell(i, j)
    \/ \E type \in GridTypes : grid_create_ex(GridSide, GridSide, 1, type)
    \/ \E i, j \in CoordInputs : grid_get_cell(i, j)
    \/ \E i, j \in CoordInputs : grid_activate_cell(i, j)
    \/ \E i, j \in CoordInputs : grid_deactivate_cell(i, j)

SpecGrid == Init /\ [][GridNext]_vars

(***************************************************************************)
(* The error-flag records of the two simulations, set, cleared and queried *)
(***************************************************************************)
ErrorNext ==
    \/ \E s \in SimIds, n \in ErrorNameInputs : NEG_SET_ERROR(s, n)
    \/ \E s \in SimIds, n \in ErrorNameInputs : NEG_CLEAR_ERROR(s, n)
    \/ \E s \in SimIds : neg_error_clear(s)
    \/ \E s \in SimIds : neg_error_has_errors(s)

SpecError == Init /\ [][ErrorNext]_vars

(***************************************************************************)
(* Two simulations stepped and hashed while error flags are raised         *)
(***************************************************************************)
FlaggedStateNext ==
    \/ \E s \in SimIds, dt \in DtInputs : state_step(s, dt)
    \/ \E s \in SimIds, fill \in GarbageBytes : state_hash(s, fill)
    \/ \E s \in SimIds : NEG_SET_ERROR(s, "overflow")

SpecFlaggedState == Init /\ [][FlaggedStateNext]_vars

(***************************************************************************)
(* One tile stepped by one caller                                          *)
(***************************************************************************)
InitDispatch == SlabInit /\ StateInit /\ GridInit /\ DispatchInit /\ NumericIdle

DispatchNext ==
    \E num_cells \in NumCellsInputs, cfg_null \in BOOLEAN, dt \in DtTileInputs,
       alloc \in [1 .. TileCells -> AllocOutcomes] :
        lod_gated_step_tile(num_cells, cfg_null, dt, alloc)

SpecDispatch == InitDispatch /\ [][DispatchNext]_vars


(***************************************************************************)
(* One parameter file loaded into a caller's record                        *)
(***************************************************************************)
InitParams ==
    /\ SlabInit /\ StateInit /\ GridInit /\ DispatchIdle
    /\ ParamsInit /\ BarrierIdle /\ SolverIdle

ParamsNext == regeneration_cascade_load_params

SpecParams == InitParams /\ [][ParamsNext]_vars

(***************************************************************************)
(* The two barrier gradients applied to one state value and one bound      *)
(***************************************************************************)
InitBarrier ==
    /\ SlabInit /\ StateInit /\ GridInit /\ DispatchIdle
    /\ ParamsIdle /\ BarrierInit /\ SolverIdle

BarrierNext == fixed_barrier_gradient \/ fixed_barrier_gradient_upper

SpecBarrier == InitBarrier /\ [][BarrierNext]_vars

(***************************************************************************)
(* The slab when workers keep the pointers they release and may release    *)
(* them again                                                              *)
(***************************************************************************)
SlabRefreeNext ==
    \/ workspace_slab_init
    \/ SpawnWorkers
    \/ workspace_slab_alloc_clebsch("main")
    \/ \E t \in Claimants :
          \/ integrator_workspace_create(t)
          \/ workspace_slab_alloc_integrator(t)
          \/ integrator_workspace_create_init(t)
    \/ \E t \in Workers :
          \/ FreeIntegratorKeeping(t)
          \/ \E through_destroy \in BOOLEAN :
                FreeIntegratorAgain(t, through_destroy)
          \/ FreeIntegratorLoad(t)
          \/ FreeIntegratorCas(t)
          \/ FreeIntegratorCasFail(t)
          \/ FreeIntegratorZero(t)

SpecSlabRefree == Init /\ [][SlabRefreeNext]_vars

(***************************************************************************)
(* Single cells stepped by one caller                                      *)
(***************************************************************************)
InitCellStep ==
    SlabInit /\ StateInit /\ GridInit /\ CellStepInit /\ NumericIdle

CellStepNext ==
    \E i \in 1 .. TileCells, cfg_null \in BOOLEAN, dt \in DtTileInputs,
       alloc \in AllocOutcomes :
        lod_gated_step_cell_call(i, cfg_null, dt, alloc)

SpecCellStep == InitCellStep /\ [][CellStepNext]_vars

(***************************************************************************)
(* One generator seeded and drawn from                                     *)
(***************************************************************************)
InitRng ==
    /\ SlabInit /\ StateInit /\ GridInit /\ DispatchIdle
    /\ ParamsIdle /\ BarrierIdle /\ RngInit /\ HydroIdle

RngNext ==
    \/ \E seed \in SeedInputs : neg_rng_seed(seed)
    \/ \E min \in RangeEndInputs, max \in RangeEndInputs,
          build \in SignedOverflowBuilds :
           neg_rng_range(min, max, build)

SpecRng == InitRng /\ [][RngNext]_vars

(***************************************************************************)
(* The Richards-Lite solver stepped by one caller                          *)
(***************************************************************************)
InitRichards ==
    /\ SlabInit /\ StateInit /\ GridInit /\ DispatchIdle
    /\ ParamsIdle /\ BarrierIdle /\ RngIdle /\ HydroInit

RichardsNext ==
    \/ richards_lite_init
    \/ \E t \in HydCallers, p \in SolverParamInputs, dt \in SolverDtInputs,
          rainfall \in RainfallInputs :
           richards_lite_step(t, p, dt, rainfall)

SpecRichards == InitRichards /\ [][RichardsNext]_vars

(***************************************************************************)
(* The Richards-Lite solver stepped by two callers at once, each on its    *)
(* own cell array                                                          *)
(***************************************************************************)
\* Both calls are made with no rainfall on dry columns, so that each column
\* is at rest and its call, made alone, converges at once.
RaceParams == RichardsLiteParams(10, 20, TRUE)
RaceDt == 60
RaceRainfall == 0

InitRichardsRace ==
    /\ SlabInit /\ StateInit /\ GridInit /\ DispatchIdle
    /\ ParamsIdle /\ BarrierIdle /\ RngIdle /\ HydroRaceInit

RichardsRaceNext ==
    \/ \E t \in HydCallers :
           richards_lite_step_enter(t, RaceParams, RaceDt, RaceRainfall)
    \/ \E t \in HydCallers : richards_lite_step_advance(t)

SpecRichardsRace == InitRichardsRace /\ [][RichardsRaceNext]_vars

(***************************************************************************)
(* Properties of the slab allocator                                        *)
(***************************************************************************)
IntegratorSlots == {IntegratorPtr(i) : i \in 0 .. MAX_INTEGRATOR_WORKSPACES - 1}
ClebschSlots == {ClebschPtr(i) : i \in 0 .. MAX_CLEBSCH_WORKSPACES - 1}

\* The slots a thread has claimed: from the compare-exchange that set the bit
\* (the allocation may not have returned yet) until the compare-exchange of its
\* free clears the bit.
Claimed(t) ==
    held[t]
    \cup (IF thr[t].pc = "ai_zero" THEN {IntegratorPtr(thr[t].slot)} ELSE {})
    \cup (IF thr[t].pc \in {"ac_zero", "ac_attach"}
          THEN {ClebschPtr(thr[t].slot)} ELSE {})
    \cup (IF thr[t].pc \in {"fi_load", "fi_cas", "fc_load", "fc_cas"}
          THEN {thr[t].ws} ELSE {})

AllClaimed == UNION {Claimed(t) : t \in Claimants}

\* C1: no pool slot is claimed by two threads at the same time.
C1_SlotsExclusive ==
    \A t, u \in Claimants : t # u => Claimed(t) \cap Claimed(u) = {}

\* two workers race for the same integrator slot; one has won the exchange
C1_Witness ==
    \E t, u \in Workers :
        /\ t # u
        /\ thr[t].pc = "ai_zero" /\ thr[u].pc = "ai_cas"
        /\ thr[t].slot = thr[u].slot

\* C2: while a thread holds a workspace, no step of another thread changes
\* that workspace's memory.
C2_NoForeignWrite ==
    [][\A t \in Claimants : \A p \in held[t] \cap held'[t] :
          thr'[t] = thr[t] =>
             /\ p.base = "integrator_pool" =>
                  integrator_pool'[p.idx] = integrator_pool[p.idx]
             /\ p.base = "clebsch_pool" =>
                  clebsch_pool'[p.idx] = clebsch_pool[p.idx]]_vars

\* C3: every held Clebsch workspace has its lut pointer set to the shared LUT.
C3_HeldClebschHasLut ==
    \A t \in Claimants : \A p \in held[t] :
        p.base = "clebsch_pool" => clebsch_pool[p.idx].lut = SharedLut

\* C6: with the slab initialized, an allocation returns NULL exactly when every
\* slot of its pool is claimed, and then leaves the bitmap unchanged; never
\* more slots are claimed than the pool has.
C6_NullIffExhausted ==
    /\ [](/\ Cardinality(AllClaimed \cap IntegratorSlots)
               <= MAX_INTEGRATOR_WORKSPACES
          /\ Cardinality(AllClaimed \cap ClebschSlots) <= MAX_CLEBSCH_WORKSPACES
          /\ AllClaimed \subseteq IntegratorSlots \cup ClebschSlots)
    /\ [][\A t \in Claimants :
            /\ (thr[t].pc = "ai_load" /\ thr'[t].pc # "ai_load") =>
                 /\ thr'[t].pc = "ai_null"
                      <=> IntegratorSlots \subseteq AllClaimed
                 /\ thr'[t].pc = "ai_null" =>
                      integrator_bitmap' = integrator_bitmap
            /\ (thr[t].pc = "ac_load" /\ thr'[t].pc # "ac_load") =>
                 /\ thr'[t].pc = "ac_null"
                      <=> ClebschSlots \subseteq AllClaimed
                 /\ thr'[t].pc = "ac_null" =>
                      clebsch_bitmap' = clebsch_bitmap]_vars

\* a worker's allocation is returning NULL from an exhausted integrator pool
C6_Witness ==
    \E t \in Workers :
        /\ thr[t].pc = "ai_null"
        /\ slab_initialized
        /\ IntegratorSlots \subseteq AllClaimed
        /\ \E u \in Workers : u # t /\ held[u] # {}

\* C7: the claim/release path is lock-free: a thread inside a call can always
\* take its next step whatever the other threads do, and if calls keep taking
\* steps then calls keep completing.
InCallStep(t) == thr[t].pc # "idle" /\ thr'[t] # thr[t]
ReturnStep(t) == thr[t].pc # "idle" /\ thr'[t].pc = "idle"

C7_LockFree ==
    /\ [](\A t \in Claimants : thr[t].pc # "idle" => ENABLED SlabStep(t))
    /\ ([]<><<\E t \in Claimants : InCallStep(t)>>_vars
          => []<><<\E t \in Claimants : ReturnStep(t)>>_vars)

\* a worker's exchange is about to fail because the other worker changed the
\* bitmap after this worker loaded it
C7_Witness ==
    \E t \in Workers :
        /\ thr[t].pc \in {"ai_cas", "fi_cas"}
        /\ thr[t].bitmap # integrator_bitmap
        /\ \E u \in Workers : u # t /\ thr[u].pc # "idle"

\* C8: releasing a pointer that does not point to a slot of the pool is
\* ignored: the call goes straight to its return, and neither the call nor the
\* return changes a bitmap or a pool slot.
C8_ForeignFreeIgnored ==
    [][\A t \in Workers :
         /\ (thr[t].pc = "idle" /\ thr'[t].pc \in {"fi_ignore", "fi_load"}
               /\ thr'[t].ws \notin IntegratorSlots)
              => thr'[t].pc = "fi_ignore"
         /\ (thr[t].pc = "idle" /\ thr'[t].pc \in {"fc_ignore", "fc_load"}
               /\ thr'[t].ws \notin ClebschSlots)
              => thr'[t].pc = "fc_ignore"
         /\ ((thr[t].pc = "idle" /\ thr'[t].pc \in {"fi_ignore", "fc_ignore"})
               \/ (thr[t].pc \in {"fi_ignore", "fc_ignore"} /\ thr'[t] # thr[t]))
              => /\ integrator_bitmap' = integrator_bitmap
                 /\ clebsch_bitmap' = clebsch_bitmap
                 /\ integrator_pool' = integrator_pool
                 /\ clebsch_pool' = clebsch_pool
                 /\ thr'[t].pc \in {"idle", "fi_ignore", "fc_ignore"}]_vars

\* a worker releases a workspace that lives outside the pool while the other
\* worker holds a pool slot
C8_Witness ==
    \E t \in Workers :
        /\ thr[t].pc = "fi_ignore"
        /\ thr[t].ws = OtherPtr(0)
        /\ \E u \in Workers : u # t /\ held[u] # {}

\* C16: with the slab initialized, workspace_slab_is_exhausted returns true
\* when every workspace of the slab is allocated and false while some
\* workspace is unallocated.
C16_ExhaustedIffAllAllocated ==
    [][\A t \in Claimants :
          (IsExhaustedReturn(t) /\ slab_initialized) =>
              ret'.value = (/\ integrator_bitmap = FullMask(MAX_INTEGRATOR_WORKSPACES)
                            /\ clebsch_bitmap = FullMask(MAX_CLEBSCH_WORKSPACES))]_vars

\* C18: integrator_init called while the slab is initialized leaves the
\* allocation bitmaps, both pools (so every held workspace) and the shared LUT
\* as they were, however many workspaces are held.
C18_InitAgainChangesNothing ==
    [][(integrator_init /\ slab_initialized) =>
          UNCHANGED <<integrator_bitmap, clebsch_bitmap, integrator_pool,
                      clebsch_pool, lut_initialized, slab_initialized, held>>]_vars

\* integrator_init has returned from a call made on an initialized slab with
\* workspaces held, while a worker holds a workspace it has written.
C18_Witness ==
    /\ ret.op = "integrator_init"
    /\ ret.arg = <<TRUE, TRUE>>
    /\ \E t \in Workers, p \in IntegratorSlots :
          /\ p \in held[t]
          /\ integrator_pool[p.idx].max_dim # 0

(***************************************************************************)
(* Properties of the state snapshot                                        *)
(***************************************************************************)
\* C4: when state_reset_from_binary returns false, the simulation's timestamp,
\* pose array and scalar-field array are as they were before the call.
C4_FailedResetChangesNothing ==
    [][(ret'.op = "state_reset_from_binary" /\ ret'.value = FALSE) =>
          /\ sim'[ret'.arg].timestamp = sim[ret'.arg].timestamp
          /\ sim'[ret'.arg].poses = sim[ret'.arg].poses
          /\ sim'[ret'.arg].scalar_fields = sim[ret'.arg].scalar_fields]_vars

\* C5: two simulations of one configuration that have been driven by the same
\* sequence of step calls have the same state_hash after every step.
C5_SameStepsSameHash ==
    \A s, t \in SimIds :
        (/\ hash_out[s] # NoHash /\ hash_out[t] # NoHash
         /\ Len(hist[s]) >= 1
         /\ hist[s] = hist[t]
         /\ \A k \in 1 .. Len(hist[s]) : hist[s][k] # -1)
        => hash_out[s] = hash_out[t]

\* the caller's buffer holds what state_to_binary writes for simulation s
SnapshotOf(s) ==
    snapshot \in {SerializedBytes(sim[s], Fill(fill, state_get_binary_size)) :
                     fill \in GarbageBytes}

\* C29: state_reset_from_binary applied to the bytes state_to_binary produced
\* for a simulation S, on another simulation of the same configuration,
\* succeeds, and afterwards the restored simulation's state_hash equals the
\* state_hash of S.
C29_RoundTripKeepsHash ==
    \A S, R \in SimIds :
        (/\ S # R
         /\ ret.op = "state_reset_from_binary" /\ ret.arg = R
         /\ snapshot # <<>>
         /\ SnapshotOf(S))
        => /\ ret.value = TRUE
           /\ (hash_out[S] # NoHash /\ hash_out[R] # NoHash)
                  => hash_out[S] = hash_out[R]

(***************************************************************************)
(* Properties of the octree and the grid                                   *)
(***************************************************************************)
\* C9: octree_activate_cell on a cell that is not active, when recording it
\* would take memory_used over the budget, returns failure, leaves the active
\* set and memory_used unchanged, and sets the memory-error flag.
C9_OverBudgetFailsAndFlags ==
    [][(/\ ret'.op = "octree_activate_cell"
        /\ InBounds(tree, ret'.arg[1], ret'.arg[2])
        /\ octree_is_active(tree, ret'.arg[1], ret'.arg[2]) = 0
        /\ tree.memory_used + SizeofU32 > tree.memory_budget)
       => /\ ret'.value = -1
          /\ tree'.active_indices = tree.active_indices
          /\ tree'.active_count = tree.active_count
          /\ tree'.memory_used = tree.memory_used
          /\ \E s \in SimIds : error_flags'[s].memory_error = 1]_vars

\* C10: on a sparse grid, grid_activate_cell(i, j) with (i, j) in range returns
\* a non-null cell pointer.
C10_SparseActivateReturnsCell ==
    (/\ grid.type = "GRID_SPARSE_OCTREE"
     /\ ret.op = "grid_activate_cell"
     /\ ret.arg[1] \in 0 .. grid.nx - 1
     /\ ret.arg[2] \in 0 .. grid.ny - 1)
    => ret.value # NullCell

\* The cells octree_is_active reports active
ActiveCells(t) ==
    {c \in (0 .. t.nx - 1) \X (0 .. t.ny - 1) : octree_is_active(t, c[1], c[2]) = 1}

\* C22: after any sequence of octree_activate_cell and octree_deactivate_cell
\* calls the active-index list holds no index twice and total_active is the
\* number of distinct active cells; activating an already-active cell changes
\* nothing.
C22_ActiveIndicesDeduplicated ==
    [][/\ \A k, m \in 1 .. tree'.active_count :
              k # m => tree'.active_indices[k] # tree'.active_indices[m]
       /\ tree'.total_active = Cardinality(ActiveCells(tree'))
       /\ (/\ ret'.op = "octree_activate_cell"
           /\ InBounds(tree, ret'.arg[1], ret'.arg[2])
           /\ octree_is_active(tree, ret'.arg[1], ret'.arg[2]) = 1)
          => tree' = tree]_vars

\* C22 witness: cell (0, 0) was activated, then cell (1, 0), and the last call
\* activated (0, 0) once more.
C22_Witness ==
    /\ ret = Returned("octree_activate_cell", <<0, 0>>, 0)
    /\ tree.active_count = 2
    /\ tree.active_indices = <<octree_linear_index(tree.nx, 0, 0),
                               octree_linear_index(tree.nx, 1, 0)>>
    /\ tree.total_active = 2

\* C27: after any sequence of activations and deactivations, memory_used is
\* its value at creation plus 4 bytes per currently active cell.
C27_MemoryUsedTracksActiveCells ==
    tree.memory_used
        = SizeofOctree + SizeofOctreeNode + SizeofU32 * tree.total_active

(***************************************************************************)
(* Properties of the tile dispatch                                         *)
(***************************************************************************)
\* The lod_gated_step_cell calls of the tile step just made.
LastTileStep == calls'[Len(calls')]
TileStepReturns(value) ==
    /\ calls' # calls
    /\ ret'.op = "lod_gated_step_tile"
    /\ ret'.value = value

\* C11: a step of lod_gated_step_tile leaves every cell whose ACTIVE flag is
\* clear exactly as it was and makes no lod_gated_step_cell call on it.
C11_InactiveCellsUntouched ==
    [][TileStepReturns(0) =>
        \A i \in 1 .. TileCells :
            ~HasFlag(cells[i].flags, CELL_FLAG_ACTIVE) =>
                /\ cells'[i] = cells[i]
                /\ \A k \in 1 .. Len(LastTileStep) : LastTileStep[k].cell # i]_vars

\* A tile step was made over a fine-LoD tile holding an inactive Lie-Poisson
\* cell and an active one that the Clebsch integrator advanced.
C11_Witness ==
    /\ Len(calls) > 0
    /\ \E i, j \in 1 .. TileCells :
        /\ cells[i].flags = CELL_FLAG_REQUIRES_LP
        /\ cells[i].lod_level = 2
        /\ HasFlag(cells[j].flags, CELL_FLAG_ACTIVE)
        /\ cells[j].vorticity \notin VorticityInputs
        /\ \E k \in 1 .. Len(calls[1]) :
            /\ calls[1][k].cell = j
            /\ calls[1][k].result = 0

\* The cell that lod_gated_step_cell makes of c on its own, when its
\* allocations succeed.
SteppedAlone(c, dt) ==
    lod_gated_step_cell(c, IntegratorConfig(dt),
                        Env(FreshWorkspace, FALSE, 0), "ok", linked_clebsch).cell

\* C12: in a step of lod_gated_step_tile every active cell receives exactly
\* one lod_gated_step_cell call, whatever the other calls returned, and each
\* cell ends as its own call left it: a failed call changes no other cell and
\* stops no later one.
C12_FailuresIsolated ==
    [][TileStepReturns(0) =>
        LET n == ret'.arg[1]
            dt == ret'.arg[3]
            active == {i \in 1 .. n : HasFlag(cells[i].flags, CELL_FLAG_ACTIVE)}
        IN  /\ Len(LastTileStep) = Cardinality(active)
            /\ \A i \in active :
                 \E k \in 1 .. Len(LastTileStep) :
                    /\ LastTileStep[k].cell = i
                    /\ \A m \in 1 .. Len(LastTileStep) :
                         LastTileStep[m].cell = i => m = k
                    /\ cells'[i] = IF LastTileStep[k].result = 0
                                   THEN SteppedAlone(cells[i], dt)
                                   ELSE cells[i]]_vars

\* A tile step in which the call on the first cell failed and the call on a
\* later cell succeeded and advanced that cell.
C12_Witness ==
    /\ Len(calls) > 0
    /\ Len(calls[1]) >= 2
    /\ calls[1][1].result # 0
    /\ \E k \in 2 .. Len(calls[1]) :
        /\ calls[1][k].result = 0
        /\ calls[1][k].methods = <<"INTEGRATOR_CLEBSCH_COLLECTIVE">>
        /\ cells[calls[1][k].cell].vorticity \notin VorticityInputs

\* The lod_gated_step_cell call just made, when it got as far as an attempt.
CellStepMade ==
    /\ calls' # calls
    /\ ret'.op = "lod_gated_step_cell"
    /\ calls'[Len(calls')] # <<>>
LastCellStep == calls'[Len(calls')][1]

\* C23: when lod_gated_step_cell escalates, the retry starts from exactly the
\* cell as it was before the first attempt, and nothing the abandoned attempt
\* did to the cell remains: the final cell is what the retry's method makes
\* of the cell as it was before the call.
C23_EscalationRestoresSavedState ==
    [][(CellStepMade /\ Len(LastCellStep.methods) = 2) =>
        LET i == LastCellStep.cell
            retried == integrator_step_cell(
                           cells[i], IntegratorConfig(ret'.arg[3]),
                           LastCellStep.methods[2],
                           Env(tile_ws, g_clebsch_lut, heap_allocs),
                           "ok", linked_clebsch)
        IN  /\ LastCellStep.starts[1] = cells[i]
            /\ LastCellStep.starts[2] = cells[i]
            /\ LastCellStep.result = 0 => cells'[i] = retried.cell]_vars

\* A call that escalated from RKMK4 to the Clebsch integrator, which advanced
\* the cell.
C23_Witness ==
    /\ ret.op = "lod_gated_step_cell"
    /\ ret.value = 0
    /\ Len(calls) > 0
    /\ calls[Len(calls)] # <<>>
    /\ calls[Len(calls)][1].methods
           = <<"INTEGRATOR_RKMK4", "INTEGRATOR_CLEBSCH_COLLECTIVE">>
    /\ cells[calls[Len(calls)][1].cell].vorticity \notin VorticityInputs

C28_EscalatesUntilWithinThreshold ==
    [][(CellStepMade /\ ret'.value = 0) =>
        LET i == LastCellStep.cell
            last == LastCellStep.methods[Len(LastCellStep.methods)]
            error == estimate_integration_error(cells'[i], cells[i], ret'.arg[3])
        IN  /\ Len(LastCellStep.methods) <= 3
            /\ \/ last = "INTEGRATOR_CLEBSCH_COLLECTIVE"
               \/ ~should_escalate(error, last)]_vars

\* C26: releasing the same workspace pointer a second time never releases a
\* slot that another claimant currently holds: whenever the bit of a slot
\* of the integrator pool goes from set to clear, no thread holds that slot
\* (its holder gave it up by calling the release).
C26_RefreeNeverReleasesHeldSlot ==
    [][\A i \in 0 .. MAX_INTEGRATOR_WORKSPACES - 1 :
          (TestBit(integrator_bitmap, i) /\ ~TestBit(integrator_bitmap', i))
          => \A u \in Claimants : IntegratorPtr(i) \notin held[u]]_vars

\* C25: the vertical implicit pass makes at most picard_max_iter Picard
\* iterations on a column and stops as soon as the maximum change in theta is
\* below picard_tol, both taken from the parameters handed to
\* richards_lite_step: every iteration but the last changed theta by at least
\* picard_tol, and a pass that stopped before picard_max_iter iterations
\* ended on a change below picard_tol.
C25_PicardBoundsComeFromParams ==
    \A t \in HydCallers :
        (hyd[t].pc = "done" /\ Len(hyd[t].changes) > 0) =>
            LET p == hyd[t].params
                n == Len(hyd[t].changes)
            IN  /\ n <= p.picard_max_iter
                /\ \A i \in 1 .. n - 1 : hyd[t].changes[i] >= p.picard_tol
                /\ n < p.picard_max_iter => hyd[t].changes[n] < p.picard_tol

\* C30: two richards_lite_step calls running at once on cell arrays that
\* share no Cell leave each array as the call made alone would have left it.
C30_ConcurrentStepsEqualSequential ==
    (\A t \in HydCallers : hyd[t].pc = "done") =>
        \A t \in HydCallers :
            hyd[t].cells
                = RunToReturn(HydCall(hyd[t].given, hyd[t].params, hyd[t].dt,
                                      hyd[t].rainfall),
                              ZeroScratch, TRUE).th.cells

\* C14: stepping cells through the dispatcher makes no heap allocation once
\* integrator_init has returned.
C14_NoHeapAllocationInStep == heap_allocs = 0

AnyErrorFlagSet(flags) == \E n \in ErrorNames : flags[n] = 1

\* C13: after any sequence of NEG_SET_ERROR, NEG_CLEAR_ERROR and
\* neg_error_clear on a record, neg_error_has_errors returns true if one of
\* its error flags is set and false otherwise.
C13_HasErrorsIffFlagSet ==
    [][\A s \in SimIds :
          neg_error_has_errors(s) =>
              ret'.value = AnyErrorFlagSet(error_flags[s])]_vars


(***************************************************************************)
(* Properties of the parameter loader                                      *)
(***************************************************************************)
\* C17: regeneration_cascade_load_params returns an error for every parameter
\* file whose r_V is at most 0 or at least 1, r_V = 1 included.
C17_RejectsRvOutsideOpenUnitInterval ==
    (/\ ret.op = "regeneration_cascade_load_params"
     /\ \E i \in DOMAIN params.json :
            /\ params.json[i].key = "r_V"
            /\ params.json[i].has_value
            /\ \/ params.json[i].value <= 0
               \/ params.json[i].value >= ParamUnit)
    => ret.value = -1

(***************************************************************************)
(* Properties of the barrier gradients                                     *)
(***************************************************************************)
\* C19: fixed_barrier_gradient(x, x_min) is strictly negative for every x
\* strictly above x_min, and fixed_barrier_gradient_upper(x, x_max) is
\* strictly positive for every x strictly below x_max.
C19_GradientSignInsideBounds ==
    /\ (ret.op = "fixed_barrier_gradient" /\ ret.arg[1] > ret.arg[2])
       => ret.value < 0
    /\ (ret.op = "fixed_barrier_gradient_upper" /\ ret.arg[1] < ret.arg[2])
       => ret.value > 0

\* C20: fixed_barrier_gradient(x, x_min) returns the saturated extremum
\* -0x7FFFFFFF for every x with x <= x_min + BARRIER_EPS.
C20_SaturatesWithinEpsOfBound ==
    (/\ ret.op = "fixed_barrier_gradient"
     /\ ret.arg[1] <= barrier_fixed_add(ret.arg[2], BARRIER_EPS))
    => ret.value = -INT32_MAX


(***************************************************************************)
(* Properties of the generator                                             *)
(***************************************************************************)
\* C21: for every generator state and every min <= max, neg_rng_range
\* completes and returns a value v with min <= v <= max.
C21_RangeCompletesWithinBounds ==
    (ret.op = "neg_rng_range" /\ LeS(ret.arg[1], ret.arg[2]))
    => /\ ret.value.completed
       /\ LeS(ret.arg[1], ret.value.v)
       /\ LeS(ret.value.v, ret.arg[2])

====
